---- MODULE Spec2Model ----
(***************************************************************************)
(* A model of the CGI gateway of cgi-rs: the concurrency limiter           *)
(* (src/src/limit.rs wired by src/cgi/src/main.rs and src/src/main.rs),    *)
(* the process stream (src/src/process.rs), the header parser and          *)
(* response assembler of Script::serve (src/cgi-rs/src/server.rs) and the  *)
(* per-frame timer of TimeoutBody (src/src/timeout.rs).                    *)
(*                                                                         *)
(* The parts share no program state, so each has a specification of        *)
(* its own over the module's variables: SpecLimit (with SpecClone for the  *)
(* clones of the service and SpecAdmission for the admission alone),       *)
(* SpecPS / SpecStatus (and SpecEndpoints, which runs either of the two),  *)
(* SpecHdr, SpecEnv for the environment Script::serve builds, and SpecTB.  *)
(* A specification keeps the variables of the other parts at their         *)
(* initial value.                                                          *)
(***************************************************************************)
EXTENDS Integers, Sequences, FiniteSets, TLC

(***************************************************************************)
(* Bounds of the model.                                                    *)
(***************************************************************************)
\* capacity N of the pool built by cgi's main (--max-processes)
Capacity == 2
\* accepted connections, each with its own HttpConcurrencyLimit instance
NConns == 2
\* requests seen over the run
NReqs == 3

\* items (chunks or an error) the request-body source yields at most
MaxChunks == 2
\* bytes in one request-body chunk at most
MaxChunkLen == 2
\* bytes the child writes to its standard output at most
MaxOut == 2
\* bytes the child writes to its standard error at most
MaxErr == 1
\* largest output_buffer_size tried (the tests use 1 and 1024)
MaxBufSize == 2

\* header lines the child writes at most
MaxHdrLines == 2
\* bytes of response body the child writes at most
MaxBodyLen == 2
\* bytes in one chunk of the stdout-only view at most
MaxViewChunk == 2

\* header lines of a request at most (Transfer-Encoding apart)
MaxReqHeaders == 2

\* frames the inner body of a TimeoutBody yields at most
MaxTbFrames == 2
\* largest timeout of a TimeoutBody tried, in ticks of the clock
MaxTimeout == 2
\* ticks of the clock over a run
MaxTime == 3

\* Semaphore::new(1) of the earlier main
LegacyCapacity == 1

Conns == 1..NConns
Reqs == 1..NReqs

VARIABLES
  \* ---- limiter ----
  mainKind,     \* which main wires the limiter: "cgi" (tower layer) or "legacy"
  semaphore,    \* permits available in the shared Semaphore
  svcLive,      \* the HttpConcurrencyLimit instances that exist
  svcPermit,    \* HttpConcurrencyLimit.permit of each connection's service
  stage,        \* where each request is: none, future, failed, body, dropped
  futPermit,    \* HttpConcurrencyLimitFut.permit (or the handler's local permit)
  bodyPermit,   \* PermittedBody.permit
  inner,        \* position of the inner handler (Script::serve): start, reading, done
  bodyKind,     \* the inner body: "full" (error response) or "stream" (child output)
  bodyEnded,    \* the inner body of the request has reported end-of-stream
  lastFrame,    \* what the latest PermittedBody::poll_frame returned
  child         \* the request's child process: none, alive, dead

VARIABLES
  \* ---- process stream: the fields of ProcessStream / PSStatus ----
  input,              \* the request-body source: the items it has yet to yield
  stdin,              \* Option<ChildStdin> is Some
  stdout,             \* Option<ChildStdout> is Some
  stderr,             \* Option<ChildStderr> is Some
  input_buffer,       \* Option<Bytes>: <<>> for None, <<v>> for Some(v)
  input_closed,
  output_buffer_size,
  \* ---- the child and its pipes ----
  childKind,          \* "echo": writes a fixed output; "cat": copies stdin to stdout
  childOut,           \* what an echo child has yet to write to stdout
  childErr,           \* what the child has yet to write to stderr
  catPos,             \* how many of the bytes received on stdin cat has copied
  stdinRecv,          \* the bytes the stdin pipe has accepted, in order
  outPipe,            \* written to stdout by the child, not yet read
  outClosed,          \* the child has closed its stdout
  errPipe,
  errClosed,
  \* ---- what the consumer and an observer of the stream see ----
  srcAll,             \* the items of the request-body source, as first given
  emitted,            \* the items the stream returned as Ready(Some(Ok(_)))
  psResult,           \* what the latest step returned
  polled,             \* the endpoints the latest step polled, in order
  wakers,             \* the endpoints whose poll in the latest step was pending
                      \* (the only polls that keep the task's waker)
  driven              \* the object stepped: "ProcessStream", "PSStatus", "none"

psVars == <<input, stdin, stdout, stderr, input_buffer, input_closed,
            output_buffer_size, childKind, childOut, childErr, catPos,
            stdinRecv, outPipe, outClosed, errPipe, errClosed, srcAll,
            emitted, psResult, polled, wakers, driven>>

VARIABLES
  \* ---- Script::serve ----
  transfer_encoding,   \* the values of the request's Transfer-Encoding headers
  spawn_ok,            \* Command::spawn succeeds for the configured executable
  spawned,             \* children spawned for the request
  req,                 \* the request: method, path, query, headers (name as sent, value)
  script,              \* the Script: root, env, inherited_env
  host_env,            \* the environment of the server process
  env,                 \* the map built for the child
  child_env,           \* the environment of the child spawned
  childStdout,         \* all the child writes to its stdout
  viewRest,            \* what the stdout-only view has yet to deliver
  reader_chunk,        \* StreamReader: what is left of the chunk it holds
  line,                \* the line read_line is filling
  hdrPhase,            \* start, headers, body, error (an error response), ended, failed
  has_header,
  status_code,         \* Option<StatusCode>: 0 for None
  has_location_header,
  has_content_type,
  resp_headers,        \* the headers given to response_builder, in order
  resp_status,         \* the status of the response returned (0: none yet)
  resp_error,          \* the message of an error response
  resp_body            \* the bytes of the frames of the response body so far

VARIABLES
  \* ---- TimeoutBody (src/src/timeout.rs) ----
  tb_timeout,          \* TimeoutBody.timeout, in ticks
  tb_sleep,            \* TimeoutBody.sleep: -1 for None, else the deadline of the Sleep
  tb_now,              \* the clock
  tb_all,              \* the items of the inner body, as first given
  tb_body,             \* the items the inner body has yet to yield
  tb_out,              \* what poll_frame has returned as Ready, in order
  tb_last              \* what the latest poll_frame returned

tbVars == <<tb_timeout, tb_sleep, tb_now, tb_all, tb_body, tb_out, tb_last>>

envVars == <<req, script, host_env, env, child_env>>

hdrVars == <<tbVars, transfer_encoding, spawn_ok, spawned, envVars, childStdout, viewRest, reader_chunk, line, hdrPhase, has_header,
             status_code, has_location_header, has_content_type, resp_headers,
             resp_status, resp_error, resp_body>>

limVars == <<mainKind, semaphore, svcLive, svcPermit, stage, futPermit, bodyPermit,
             inner, bodyKind, bodyEnded, lastFrame, child>>

vars == <<limVars, psVars, hdrVars>>

(***************************************************************************)
(* Concurrency limiter.                                                    *)
(***************************************************************************)

\* capacity of the pool of the running main
PoolCapacity == IF mainKind = "cgi" THEN Capacity ELSE LegacyCapacity

\* dropping an Option<OwnedSemaphorePermit>: a held permit goes back to the pool
Release(held) == IF held THEN semaphore + 1 ELSE semaphore

\* a Command built without kill_on_drop
NoKillOnDrop(r) == child[r]

\* kill_on_drop(true): dropping the owner of the Child kills a live child
KillOnDrop(r) == IF child[r] = "alive" THEN "dead" ELSE child[r]

\* no TimeoutBody exists
TBIdle ==
  /\ tb_timeout = 0 /\ tb_sleep = -1 /\ tb_now = 0
  /\ tb_all = <<>> /\ tb_body = <<>> /\ tb_out = <<>> /\ tb_last = "idle"

\* no handler is reading a header block
HdrIdle ==
  /\ TBIdle
  /\ transfer_encoding = <<>> /\ spawn_ok = TRUE /\ spawned = 0
  /\ req = <<>> /\ script = <<>> /\ host_env = <<>> /\ env = <<>> /\ child_env = <<>>
  /\ childStdout = <<>> /\ viewRest = <<>> /\ reader_chunk = <<>> /\ line = <<>>
  /\ hdrPhase = "idle"
  /\ has_header = FALSE /\ status_code = 0
  /\ has_location_header = FALSE /\ has_content_type = FALSE
  /\ resp_headers = <<>> /\ resp_status = 0 /\ resp_error = "" /\ resp_body = <<>>

\* no process stream exists
PSIdle ==
  /\ input = <<>> /\ srcAll = <<>>
  /\ stdin = FALSE /\ stdout = FALSE /\ stderr = FALSE
  /\ input_buffer = <<>> /\ input_closed = FALSE
  /\ output_buffer_size = 1
  /\ childKind = "echo" /\ childOut = <<>> /\ childErr = <<>> /\ catPos = 0
  /\ stdinRecv = <<>>
  /\ outPipe = <<>> /\ outClosed = FALSE
  /\ errPipe = <<>> /\ errClosed = FALSE
  /\ emitted = <<>> /\ psResult = "none" /\ polled = <<>>
  /\ wakers = {} /\ driven = "none"

InitLimit ==
  /\ mainKind \in {"cgi", "legacy"}
  /\ semaphore = PoolCapacity
  /\ svcLive = IF mainKind = "cgi" THEN Conns ELSE {}
  /\ svcPermit = [c \in Conns |-> FALSE]
  /\ stage = [r \in Reqs |-> "none"]
  /\ futPermit = [r \in Reqs |-> FALSE]
  /\ bodyPermit = [r \in Reqs |-> FALSE]
  /\ inner = [r \in Reqs |-> "start"]
  /\ bodyKind = [r \in Reqs |-> "none"]
  /\ bodyEnded = [r \in Reqs |-> FALSE]
  /\ lastFrame = "none"
  /\ child = [r \in Reqs |-> "none"]
  /\ PSIdle
  /\ HdrIdle

\* HttpConcurrencyLimit::poll_ready: acquire a permit unless one is held; the
\* inner service_fn is always ready.  With no permit available poll_acquire is
\* pending and nothing changes.
PollReadyMissingGuard(c) ==
  /\ mainKind = "cgi"
  /\ c \in svcLive
  /\ ~svcPermit[c]
  /\ svcPermit' = [svcPermit EXCEPT ![c] = TRUE]
  /\ semaphore' = IF semaphore > 0 THEN semaphore - 1 ELSE 0
  /\ UNCHANGED <<mainKind, svcLive, stage, futPermit, bodyPermit, inner, bodyKind,
                 bodyEnded, lastFrame, child>>
  /\ UNCHANGED <<psVars, hdrVars>>

PollReady(c) ==
  /\ mainKind = "cgi"
  /\ c \in svcLive
  /\ ~svcPermit[c]
  /\ semaphore > 0
  /\ svcPermit' = [svcPermit EXCEPT ![c] = TRUE]
  /\ semaphore' = semaphore - 1
  /\ UNCHANGED <<mainKind, svcLive, stage, futPermit, bodyPermit, inner, bodyKind,
                 bodyEnded, lastFrame, child>>
  /\ UNCHANGED <<psVars, hdrVars>>

\* HttpConcurrencyLimit::call: the service's permit moves into the future.
\* hyper calls it only after poll_ready returned ready.
Call(c, r) ==
  /\ mainKind = "cgi"
  /\ c \in svcLive
  /\ svcPermit[c]
  /\ stage[r] = "none"
  /\ svcPermit' = [svcPermit EXCEPT ![c] = FALSE]
  /\ futPermit' = [futPermit EXCEPT ![r] = TRUE]
  /\ stage' = [stage EXCEPT ![r] = "future"]
  /\ UNCHANGED <<mainKind, svcLive, semaphore, bodyPermit, inner, bodyKind, bodyEnded, lastFrame, child>>
  /\ UNCHANGED <<psVars, hdrVars>>

\* the earlier main: semaphore.acquire_owned().await at the head of the handler
AcquireOwned(r) ==
  /\ mainKind = "legacy"
  /\ stage[r] = "none"
  /\ semaphore > 0
  /\ semaphore' = semaphore - 1
  /\ futPermit' = [futPermit EXCEPT ![r] = TRUE]
  /\ stage' = [stage EXCEPT ![r] = "future"]
  /\ UNCHANGED <<mainKind, svcLive, svcPermit, bodyPermit, inner, bodyKind, bodyEnded, lastFrame, child>>
  /\ UNCHANGED <<psVars, hdrVars>>

\* a derived Clone: the permit field is copied with the rest
CloneCopiesPermit(c, d) ==
  /\ mainKind = "cgi"
  /\ c \in svcLive
  /\ d \notin svcLive
  /\ \A e \in Conns \ svcLive : d <= e
  /\ svcLive' = svcLive \cup {d}
  /\ svcPermit' = [svcPermit EXCEPT ![d] = svcPermit[c]]
  /\ UNCHANGED <<mainKind, semaphore, stage, futPermit, bodyPermit, inner,
                 bodyKind, bodyEnded, lastFrame, child>>
  /\ UNCHANGED <<psVars, hdrVars>>

\* Clone for HttpConcurrencyLimit: instance d is made from instance c with a
\* clone of the inner service, a clone of the PollSemaphore (the same
\* Semaphore behind its Arc) and permit: None.  hyper's tower adapter clones
\* the connection's service for each request.  The new instance takes the
\* next free name.
Clone(c, d) ==
  /\ mainKind = "cgi"
  /\ c \in svcLive
  /\ d \notin svcLive
  /\ \A e \in Conns \ svcLive : d <= e
  /\ svcLive' = svcLive \cup {d}
  /\ svcPermit' = [svcPermit EXCEPT ![d] = FALSE]
  /\ UNCHANGED <<mainKind, semaphore, stage, futPermit, bodyPermit, inner,
                 bodyKind, bodyEnded, lastFrame, child>>
  /\ UNCHANGED <<psVars, hdrVars>>

\* an instance that holds a permit is dropped, and the permit goes back to the
\* pool; its name stands from then on for the instance made in its place
\* (by the layer or by Clone, with permit: None either way)
DropService(c) ==
  /\ mainKind = "cgi"
  /\ c \in svcLive
  /\ svcPermit[c]
  /\ svcPermit' = [svcPermit EXCEPT ![c] = FALSE]
  /\ semaphore' = Release(svcPermit[c])
  /\ UNCHANGED <<mainKind, svcLive, stage, futPermit, bodyPermit, inner, bodyKind,
                 bodyEnded, lastFrame, child>>
  /\ UNCHANGED <<psVars, hdrVars>>

\* what a poll of the inner handler (Script::serve) can do
FutOutcomes == {"reject400", "spawnfail", "spawn", "resp500", "respStream", "err"}

\* the response is ready: the permit goes from the future into the PermittedBody
ResponseReadyDropsPermit(r, kind, ch) ==
  /\ stage' = [stage EXCEPT ![r] = "body"]
  /\ inner' = [inner EXCEPT ![r] = "done"]
  /\ bodyKind' = [bodyKind EXCEPT ![r] = kind]
  /\ child' = [child EXCEPT ![r] = ch]
  /\ futPermit' = [futPermit EXCEPT ![r] = FALSE]
  /\ bodyPermit' = bodyPermit
  /\ semaphore' = Release(futPermit[r])
  /\ UNCHANGED <<mainKind, svcLive, svcPermit, bodyEnded, lastFrame>>

ResponseReady(r, kind, ch) ==
  /\ stage' = [stage EXCEPT ![r] = "body"]
  /\ inner' = [inner EXCEPT ![r] = "done"]
  /\ bodyKind' = [bodyKind EXCEPT ![r] = kind]
  /\ child' = [child EXCEPT ![r] = ch]
  /\ futPermit' = [futPermit EXCEPT ![r] = FALSE]
  /\ bodyPermit' = [bodyPermit EXCEPT ![r] = futPermit[r]]
  /\ UNCHANGED <<mainKind, svcLive, semaphore, svcPermit, bodyEnded, lastFrame>>

\* HttpConcurrencyLimitFut::poll (and the handler of the earlier main) driving
\* Script::serve: the chunked rejection and a failed spawn answer without a
\* child; a successful spawn leaves the handler reading the header block; then
\* either an error response (process_reader is dropped with the handler's
\* locals) or the streaming response that owns the process stream.
FutPoll(r, o) ==
  /\ stage[r] = "future"
  /\ CASE o \in {"reject400", "spawnfail"} ->
            /\ inner[r] = "start"
            /\ ResponseReady(r, "full", child[r])
       [] o = "spawn" ->
            /\ inner[r] = "start"
            /\ inner' = [inner EXCEPT ![r] = "reading"]
            /\ child' = [child EXCEPT ![r] = "alive"]
            /\ UNCHANGED <<mainKind, svcLive, semaphore, svcPermit, stage, futPermit,
                           bodyPermit, bodyKind, bodyEnded, lastFrame>>
       [] o = "resp500" ->
            /\ inner[r] = "reading"
            /\ ResponseReady(r, "full", KillOnDrop(r))
       [] o = "respStream" ->
            /\ inner[r] = "reading"
            /\ ResponseReady(r, "stream", child[r])
       [] o = "err" ->
            \* Poll::Ready(Err(err)): the permit stays in the future
            /\ stage' = [stage EXCEPT ![r] = "failed"]
            /\ inner' = [inner EXCEPT ![r] = "done"]
            /\ child' = [child EXCEPT ![r] = KillOnDrop(r)]
            /\ UNCHANGED <<mainKind, svcLive, semaphore, svcPermit, futPermit, bodyPermit,
                           bodyKind, bodyEnded, lastFrame>>
  /\ UNCHANGED <<psVars, hdrVars>>

\* a dropped future whose permit does not go back to the pool
FutDropKeepsPermit(r) ==
  /\ stage[r] \in {"future", "failed"}
  /\ stage' = [stage EXCEPT ![r] = "dropped"]
  /\ semaphore' = semaphore
  /\ futPermit' = [futPermit EXCEPT ![r] = FALSE]
  /\ child' = [child EXCEPT ![r] = KillOnDrop(r)]
  /\ inner' = [inner EXCEPT ![r] = "done"]
  /\ UNCHANGED <<mainKind, svcLive, svcPermit, bodyPermit, bodyKind, bodyEnded, lastFrame>>
  /\ UNCHANGED <<psVars, hdrVars>>

\* the future is dropped (client gone, or after it resolved to an error)
FutDrop(r) ==
  /\ stage[r] \in {"future", "failed"}
  /\ stage' = [stage EXCEPT ![r] = "dropped"]
  /\ semaphore' = Release(futPermit[r])
  /\ futPermit' = [futPermit EXCEPT ![r] = FALSE]
  /\ child' = [child EXCEPT ![r] = KillOnDrop(r)]
  /\ inner' = [inner EXCEPT ![r] = "done"]
  /\ UNCHANGED <<mainKind, svcLive, svcPermit, bodyPermit, bodyKind, bodyEnded, lastFrame>>
  /\ UNCHANGED <<psVars, hdrVars>>

\* what a poll of the inner body can return
FrameOutcomes == {"frame", "error", "pending", "end"}

\* the inner body can report end-of-stream: an error response at any time, the
\* child's output once the child has closed its pipes, which it does by exiting
InnerCanEnd(r) == bodyKind[r] = "full" \/ child[r] = "dead"

\* PermittedBody::poll_frame forgetting to put the permit back
PollFrameNoRestore(r, o) ==
  /\ stage[r] = "body"
  /\ bodyPermit[r]
  /\ o = "end" => InnerCanEnd(r)
  /\ lastFrame' = o
  /\ bodyEnded' = [bodyEnded EXCEPT ![r] = (o = "end")]
  /\ bodyPermit' = [bodyPermit EXCEPT ![r] = FALSE]
  /\ semaphore' = Release(bodyPermit[r])
  /\ UNCHANGED <<mainKind, svcLive, svcPermit, stage, futPermit, inner, bodyKind, child>>
  /\ UNCHANGED <<psVars, hdrVars>>

\* PermittedBody::poll_frame: take the permit; without one answer end-of-stream
\* without polling the inner body; with one poll the inner body and put the
\* permit back unless the inner body ended.
PollFrame(r, o) ==
  /\ stage[r] = "body"
  /\ IF ~bodyPermit[r]
     THEN /\ o = "end"
          /\ lastFrame' = "end"
          /\ UNCHANGED <<semaphore, bodyPermit, bodyEnded>>
     ELSE /\ o = "end" => InnerCanEnd(r)
          /\ lastFrame' = o
          /\ bodyEnded' = [bodyEnded EXCEPT ![r] = (o = "end")]
          /\ bodyPermit' = [bodyPermit EXCEPT ![r] = (o # "end")]
          /\ semaphore' = IF o = "end" THEN Release(bodyPermit[r]) ELSE semaphore
  /\ UNCHANGED <<mainKind, svcLive, svcPermit, stage, futPermit, inner, bodyKind, child>>
  /\ UNCHANGED <<psVars, hdrVars>>

\* a dropped response that keeps its permit out of the pool
BodyDropLeaksPermit(r) ==
  /\ stage[r] = "body"
  /\ stage' = [stage EXCEPT ![r] = "dropped"]
  /\ semaphore' = semaphore
  /\ bodyPermit' = [bodyPermit EXCEPT ![r] = FALSE]
  /\ child' = [child EXCEPT ![r] = KillOnDrop(r)]
  /\ bodyKind' = [bodyKind EXCEPT ![r] = "none"]
  /\ bodyEnded' = [bodyEnded EXCEPT ![r] = FALSE]
  /\ UNCHANGED <<mainKind, svcLive, svcPermit, futPermit, inner, lastFrame>>
  /\ UNCHANGED <<psVars, hdrVars>>

\* the response (and with it the body, the process stream and the child
\* handle) is dropped by the HTTP codec
BodyDrop(r) ==
  /\ stage[r] = "body"
  /\ stage' = [stage EXCEPT ![r] = "dropped"]
  /\ semaphore' = Release(bodyPermit[r])
  /\ bodyPermit' = [bodyPermit EXCEPT ![r] = FALSE]
  /\ child' = [child EXCEPT ![r] = KillOnDrop(r)]
  /\ bodyKind' = [bodyKind EXCEPT ![r] = "none"]
  /\ bodyEnded' = [bodyEnded EXCEPT ![r] = FALSE]
  /\ UNCHANGED <<mainKind, svcLive, svcPermit, futPermit, inner, lastFrame>>
  /\ UNCHANGED <<psVars, hdrVars>>

\* the child exits on its own, closing its pipes
ChildExit(r) ==
  /\ child[r] = "alive"
  /\ child' = [child EXCEPT ![r] = "dead"]
  /\ UNCHANGED <<mainKind, svcLive, semaphore, svcPermit, stage, futPermit, bodyPermit,
                 inner, bodyKind, bodyEnded, lastFrame>>
  /\ UNCHANGED <<psVars, hdrVars>>

NextLimit ==
  \/ \E c \in Conns : PollReady(c)
  \/ \E c \in Conns, r \in Reqs : Call(c, r)
  \/ \E r \in Reqs : AcquireOwned(r)
  \/ \E c \in Conns : DropService(c)
  \/ \E r \in Reqs, o \in FutOutcomes : FutPoll(r, o)
  \/ \E r \in Reqs : FutDrop(r)
  \/ \E r \in Reqs, o \in FrameOutcomes : PollFrame(r, o)
  \/ \E r \in Reqs : BodyDrop(r)
  \/ \E r \in Reqs : ChildExit(r)

SpecLimit == InitLimit /\ [][NextLimit]_vars

\* The scheduling the limiter runs under.  The tokio Semaphore serves its
\* waiters in the order of their arrival, so poll_ready (or acquire_owned)
\* asked again and again while permits come back gets one, and hyper calls an
\* instance that is ready with the request it was polled for: strong
\* fairness of the acquisition and of the admission.  The handler of an
\* admitted request is polled to its answer or dropped, and a response body
\* that holds a permit ends or is dropped: weak fairness.  Each is asked of the requests as a
\* whole, which is less than asking it of every request.
Acquisition == \E c \in Conns : PollReady(c)

Admission == \E r \in Reqs : (\E c \in Conns : Call(c, r)) \/ AcquireOwned(r)

HandlerStep == \E r \in Reqs : (\E o \in FutOutcomes : FutPoll(r, o)) \/ FutDrop(r)

BodyOver ==
  \E r \in Reqs : bodyPermit[r] /\ (PollFrame(r, "end") \/ BodyDrop(r))

FairLimit ==
  /\ SpecLimit
  /\ SF_vars(Acquisition)
  /\ SF_vars(Admission)
  /\ WF_vars(HandlerStep)
  /\ WF_vars(BodyOver)

\* The way of the permits alone: requests are admitted, answered without a
\* child (the answer to a chunked request), and their bodies are polled to
\* the end or dropped.
NextAdmission ==
  \/ \E c \in Conns : PollReady(c)
  \/ \E c \in Conns, r \in Reqs : Call(c, r)
  \/ \E r \in Reqs : AcquireOwned(r)
  \/ \E r \in Reqs : FutPoll(r, "reject400")
  \/ \E r \in Reqs : FutDrop(r)
  \/ \E r \in Reqs, o \in FrameOutcomes : PollFrame(r, o)
  \/ \E r \in Reqs : BodyDrop(r)

SpecAdmission == InitLimit /\ [][NextAdmission]_vars

Answered == \E r \in Reqs : FutPoll(r, "reject400") \/ FutDrop(r)

\* the same scheduling for the way of the permits alone
FairAdmission ==
  /\ SpecAdmission
  /\ SF_vars(Acquisition)
  /\ SF_vars(Admission)
  /\ WF_vars(Answered)
  /\ WF_vars(BodyOver)

\* One connection under the layer, seen from its service instances: the
\* instance made by the layer for the connection, and the clones made of it
\* and of one another.  Each is polled, called and dropped; a request that was
\* admitted is followed until its handler future is dropped.
InitClone ==
  /\ mainKind = "cgi"
  /\ semaphore = Capacity
  /\ svcLive = {1}
  /\ svcPermit = [c \in Conns |-> FALSE]
  /\ stage = [r \in Reqs |-> "none"]
  /\ futPermit = [r \in Reqs |-> FALSE]
  /\ bodyPermit = [r \in Reqs |-> FALSE]
  /\ inner = [r \in Reqs |-> "start"]
  /\ bodyKind = [r \in Reqs |-> "none"]
  /\ bodyEnded = [r \in Reqs |-> FALSE]
  /\ lastFrame = "none"
  /\ child = [r \in Reqs |-> "none"]
  /\ PSIdle
  /\ HdrIdle

NextClone ==
  \/ \E c \in Conns, d \in Conns : Clone(c, d)
  \/ \E c \in Conns : PollReady(c)
  \/ \E c \in Conns, r \in Reqs : Call(c, r)
  \/ \E c \in Conns : DropService(c)
  \/ \E r \in Reqs : FutDrop(r)

SpecClone == InitClone /\ [][NextClone]_vars

(***************************************************************************)
(* Claims about the limiter (checked under SpecLimit).                     *)
(***************************************************************************)

Count(S) == Cardinality(S)

\* permits held by a service instance, by an in-flight handler future, or by a
\* response body
PermitsOutstanding ==
  Count({c \in Conns : svcPermit[c]}) + Count({r \in Reqs : futPermit[r]})
    + Count({r \in Reqs : bodyPermit[r]})

ChildrenAlive == Count({r \in Reqs : child[r] = "alive"})

\* C1: with a pool of capacity N shared by all connections, the permits
\* outstanding (held by a service after poll_ready, by a handler future, or by
\* a response body) never exceed N, and neither do the children alive.
C1_AtMostN ==
  /\ PermitsOutstanding <= PoolCapacity
  /\ ChildrenAlive <= PoolCapacity

\* the pool is exhausted by N live children, one whose response is already
\* streaming and one whose handler is still reading headers, under the layer
C1_Witness ==
  /\ mainKind = "cgi"
  /\ ChildrenAlive = Capacity
  /\ PermitsOutstanding = Capacity
  /\ \E r \in Reqs : stage[r] = "body" /\ child[r] = "alive"
  /\ \E r \in Reqs : stage[r] = "future" /\ child[r] = "alive"
  /\ \E r \in Reqs : stage[r] = "none"

\* C26: a clone of the limiting service starts without a permit, also when
\* the instance it is made from holds one; that instance, every other one and
\* the pool are left as they were, so that permits in the pool and permits
\* held always add up to the capacity of the one pool all instances share;
\* and an instance is called only with a permit it acquired itself in
\* poll_ready, which leaves it in the call.
C26_CloneStartsWithoutPermit ==
  /\ [][\A c \in Conns, d \in Conns :
          Clone(c, d) =>
             /\ d \in svcLive' /\ ~svcPermit'[d]
             /\ \A e \in Conns \ {d} : svcPermit'[e] = svcPermit[e]
             /\ semaphore' = semaphore
             /\ PermitsOutstanding' = PermitsOutstanding]_vars
  /\ [](semaphore + PermitsOutstanding = PoolCapacity)
  /\ [][\A r \in Reqs :
          (stage[r] = "none" /\ stage'[r] = "future") =>
             \E c \in svcLive :
                /\ svcPermit[c] /\ ~svcPermit'[c]
                /\ \A e \in Conns \ {c} : svcPermit'[e] = svcPermit[e]]_vars

\* the first instance and its clone each hold a permit of their own, and the
\* pool of two is empty
C26_Witness ==
  /\ svcLive = {1, 2}
  /\ svcPermit[1] /\ svcPermit[2]
  /\ semaphore = 0
  /\ \A r \in Reqs : stage[r] = "none"

\* the first instance holds a permit and its clone none
C26_WitnessCloneOfHolder ==
  /\ svcLive = {1, 2}
  /\ svcPermit[1] /\ ~svcPermit[2]
  /\ semaphore = Capacity - 1

\* permits held on behalf of request r
HeldBy(r) ==
  (IF futPermit[r] THEN 1 ELSE 0) + (IF bodyPermit[r] THEN 1 ELSE 0)

\* the request was admitted and its response body has neither ended nor been
\* dropped
InFlight(r) ==
  \/ stage[r] \in {"future", "failed"}
  \/ stage[r] = "body" /\ ~bodyEnded[r]

\* C2: an admitted request holds exactly one permit from admission until its
\* response body ends or is dropped, whatever poll_frame returned in between
\* (a frame, an error, pending), and none before or after; the step that
\* drops a response gives back exactly the permit it still holds.
C2_OnePermitPerRequest ==
  /\ [](\A r \in Reqs : HeldBy(r) = IF InFlight(r) THEN 1 ELSE 0)
  /\ [][\A r \in Reqs :
          (stage[r] = "body" /\ stage'[r] = "dropped") =>
             /\ HeldBy(r)' = 0
             /\ semaphore' = semaphore + (IF bodyEnded[r] THEN 0 ELSE 1)]_vars

\* a streaming body was just polled without ending and still holds its permit,
\* while another response was dropped in mid-stream and its permit is back
C2_Witness ==
  /\ lastFrame \in {"frame", "error", "pending"}
  /\ \E r \in Reqs : stage[r] = "body" /\ bodyKind[r] = "stream" /\ bodyPermit[r]
  /\ \E r \in Reqs : stage[r] = "dropped" /\ child[r] = "dead"
  /\ semaphore = PoolCapacity - 1

\* C3: a child is spawned only while fewer than N other requests are in
\* flight; a request whose handler has returned its Response and whose body is
\* still being streamed counts, until that body is drained or dropped.  With
\* capacity 2 and three requests the third child waits for one of the first
\* two bodies.
C3_SpawnWaitsForBody ==
  [][\A r \in Reqs :
       (child[r] = "none" /\ child'[r] = "alive") =>
          Count({q \in Reqs \ {r} : InFlight(q)}) < PoolCapacity]_vars

\* capacity 2: one body fully drained, one still streaming, and the third
\* request's child alive
C3_Witness ==
  /\ mainKind = "cgi"
  /\ \E r1, r2, r3 \in Reqs :
       /\ r1 # r2 /\ r2 # r3 /\ r1 # r3
       /\ stage[r1] = "body" /\ bodyKind[r1] = "stream" /\ bodyEnded[r1]
       /\ stage[r2] = "body" /\ bodyKind[r2] = "stream" /\ ~bodyEnded[r2]
       /\ stage[r3] = "future" /\ child[r3] = "alive"

\* the handler future of r, or the response body it returned, owns the
\* process stream and with it the Child
OwnsStream(r) ==
  \/ stage[r] = "future" /\ inner[r] = "reading"
  \/ stage[r] = "body" /\ bodyKind[r] = "stream"

\* C16: a live child always has an owner, the handler future that is reading
\* its header block or the streaming body of the response; the step that
\* drops that owner, in whatever state, leaves the child terminated.
C16_NoChildOutlivesStream ==
  /\ [](\A r \in Reqs : child[r] = "alive" => OwnsStream(r))
  /\ [][\A r \in Reqs :
          (OwnsStream(r) /\ ~OwnsStream(r)') => child'[r] = "dead"]_vars

\* one response was dropped and its child is dead while the child of another
\* request, still streaming, lives on
C16_Witness ==
  \E r1, r2 \in Reqs :
    /\ stage[r1] = "dropped" /\ child[r1] = "dead"
    /\ stage[r2] = "body" /\ child[r2] = "alive" /\ lastFrame = "frame"

\* an error response (a Full body) has ended or is dropped in this step
FullBodyOver(r) ==
  /\ stage[r] = "body" /\ bodyKind[r] = "full" /\ bodyPermit[r]
  /\ stage'[r] = "dropped" \/ bodyEnded'[r]

\* C18 (as amended): when the spawn fails the handler answers with an error
\* response, no child and no process stream exist for the request, and the
\* permit of the request moves into the body of that response: it is held
\* while the error body is sent and goes back to the pool in the step in which
\* that body ends or is dropped.
C18_SpawnFailurePermitWithBody ==
  /\ [][\A r \in Reqs :
          FutPoll(r, "spawnfail") =>
             /\ child'[r] = "none" /\ ~OwnsStream(r)'
             /\ stage'[r] = "body" /\ bodyKind'[r] = "full"
             /\ bodyPermit'[r] /\ HeldBy(r)' = 1
             /\ semaphore' = semaphore]_vars
  /\ [][\A r \in Reqs :
          FullBodyOver(r) => (HeldBy(r)' = 0 /\ semaphore' = semaphore + 1)]_vars

\* under the layer, an error response for a request without a child has ended
\* and every permit is back in the pool
C18_Witness ==
  /\ mainKind = "cgi"
  /\ \E r \in Reqs :
       /\ stage[r] = "body" /\ bodyKind[r] = "full" /\ child[r] = "none"
       /\ bodyEnded[r] /\ ~bodyPermit[r]
  /\ semaphore = PoolCapacity
  /\ lastFrame = "end"

\* C18 (as stated): when the spawn fails no child exists and no permit is held
\* for the request beyond the failed attempt.
C18_SpawnFailureReleasesPermit ==
  [][\A r \in Reqs :
       FutPoll(r, "spawnfail") => (child'[r] = "none" /\ HeldBy(r)' = 0)]_vars

\* C27: a request that waits for admission is not admitted while the pool is
\* empty (an instance gets its permit only from a pool that has one, which it
\* takes), and it is admitted in the end, whatever the number of requests
\* ahead of it, when the bodies of the admitted requests end or are dropped
\* and the pool serves its waiters fairly.
C27_WaiterEventuallyAdmitted ==
  /\ [][\A c \in Conns :
          (~svcPermit[c] /\ svcPermit'[c]) =>
             (semaphore > 0 /\ semaphore' = semaphore - 1)]_vars
  /\ [][\A r \in Reqs :
          (stage[r] = "none" /\ stage'[r] # "none") =>
             (HeldBy(r) = 0 /\ HeldBy(r)' = 1)]_vars
  /\ \A r \in Reqs : (stage[r] = "none") ~> (stage[r] # "none")

\* more requests than permits, and all of them admitted: the last one after a
\* permit came back
C27_Witness ==
  /\ mainKind = "cgi"
  /\ \A r \in Reqs : stage[r] # "none"
  /\ \E r \in Reqs : stage[r] = "future" /\ futPermit[r]
  /\ Count({r \in Reqs : stage[r] = "dropped" \/ bodyEnded[r]}) = NReqs - 1

\* C36: the permits in the pool and the permits held (by a service, a
\* handler future or a response body) always add up to the capacity, and a
\* permit goes back to the pool once, neither lost nor returned twice: when
\* the service holding it is dropped before call, when the handler future is
\* dropped (a future that resolved to an error keeps it until then), and when
\* the response body reports its end or is dropped.
C36_PermitsConserved ==
  [][/\ semaphore + PermitsOutstanding = PoolCapacity
     /\ semaphore' + PermitsOutstanding' = PoolCapacity
     /\ semaphore' \in {semaphore - 1, semaphore, semaphore + 1}
     /\ \A c \in Conns :
          DropService(c) => (semaphore' = semaphore + 1 /\ ~svcPermit'[c])
     /\ \A r \in Reqs :
          /\ FutPoll(r, "err") => (futPermit'[r] = futPermit[r]
                                    /\ semaphore' = semaphore)
          /\ (FutDrop(r) /\ futPermit[r]) =>
               (semaphore' = semaphore + 1 /\ HeldBy(r)' = 0)
          /\ ((PollFrame(r, "end") \/ BodyDrop(r)) /\ bodyPermit[r]) =>
               (semaphore' = semaphore + 1 /\ HeldBy(r)' = 0)
          /\ ((FutDrop(r) \/ PollFrame(r, "end") \/ BodyDrop(r)) /\ HeldBy(r) = 0) =>
               semaphore' = semaphore
          /\ (stage[r] = "dropped" \/ bodyEnded[r]) => HeldBy(r) = 0]_vars

\* all permits are back in the pool after a body that ended and was then
\* polled again, a future that failed and was dropped, and a body dropped
C36_Witness ==
  /\ mainKind = "cgi"
  /\ semaphore = Capacity
  /\ PermitsOutstanding = 0
  /\ \E r \in Reqs : stage[r] = "body" /\ bodyEnded[r] /\ lastFrame = "end"
  /\ \E r \in Reqs : stage[r] = "dropped" /\ bodyKind[r] = "none" /\ inner[r] = "done"
                       /\ child[r] = "dead"

\* C37: once the inner body of a PermittedBody has reported its end the
\* permit is back in the pool, and every later poll_frame answers
\* end-of-stream and touches nothing else, the inner body included; a poll
\* that returns a frame, an error or pending leaves the permit with the body.
C37_EndReleasesOnce ==
  [][\A r \in Reqs :
       /\ (stage[r] = "body" /\ bodyEnded[r]) => ~bodyPermit[r]
       /\ (PollFrame(r, "end") /\ bodyPermit[r]) =>
            (bodyEnded'[r] /\ ~bodyPermit'[r] /\ semaphore' = semaphore + 1)
       /\ \A o \in FrameOutcomes :
            /\ (PollFrame(r, o) /\ bodyEnded[r]) =>
                 /\ o = "end" /\ lastFrame' = "end"
                 /\ UNCHANGED <<semaphore, bodyPermit, bodyEnded, bodyKind, child,
                                inner, stage>>
            /\ (PollFrame(r, o) /\ o # "end") =>
                 (bodyPermit[r] /\ bodyPermit'[r] /\ ~bodyEnded'[r]
                    /\ semaphore' = semaphore)]_vars

\* the output of a child was streamed, the inner body ended after the child
\* exited, and the body was polled after that
C37_Witness ==
  /\ mainKind = "cgi"
  /\ \E r \in Reqs :
       /\ stage[r] = "body" /\ bodyKind[r] = "stream" /\ child[r] = "dead"
       /\ bodyEnded[r] /\ ~bodyPermit[r]
       /\ \A q \in Reqs \ {r} : stage[q] = "none"
  /\ lastFrame = "end"
  /\ semaphore = Capacity

(***************************************************************************)
(* Process stream (src/src/process.rs).                                    *)
(***************************************************************************)

\* no limiter runs
LimitIdle ==
  /\ mainKind = "cgi" /\ semaphore = 0
  /\ svcLive = {}
  /\ svcPermit = [c \in Conns |-> FALSE]
  /\ stage = [r \in Reqs |-> "none"]
  /\ futPermit = [r \in Reqs |-> FALSE]
  /\ bodyPermit = [r \in Reqs |-> FALSE]
  /\ inner = [r \in Reqs |-> "start"]
  /\ bodyKind = [r \in Reqs |-> "none"]
  /\ bodyEnded = [r \in Reqs |-> FALSE]
  /\ lastFrame = "none"
  /\ child = [r \in Reqs |-> "none"]

RECURSIVE Flatten(_)
\* the concatenation of a sequence of byte sequences
Flatten(ss) == IF ss = <<>> THEN <<>> ELSE Head(ss) \o Flatten(Tail(ss))

IsPrefix(a, b) == Len(a) <= Len(b) /\ SubSeq(b, 1, Len(a)) = a

Min(a, b) == IF a <= b THEN a ELSE b

\* An item of the request-body source, Result<Bytes, E>: a chunk or an error.
\* The length of each chunk is free (an empty chunk included); its bytes are
\* numbered on, so that a repeated, lost or misplaced byte shows.
ItemLens == UNION {[1..n -> (-1)..MaxChunkLen] : n \in 0..MaxChunks}

RECURSIVE Offset(_, _)
\* bytes in the chunks before item i
Offset(lens, i) ==
  IF i <= 1 THEN 0
  ELSE Offset(lens, i - 1) + (IF lens[i - 1] > 0 THEN lens[i - 1] ELSE 0)

SourceOf(lens) ==
  [i \in 1..Len(lens) |->
     [err |-> lens[i] = -1,
      data |-> IF lens[i] <= 0 THEN <<>>
               ELSE [j \in 1..lens[i] |-> Offset(lens, i) + j]]]

SourceStreams == {SourceOf(lens) : lens \in ItemLens}

\* the fixed output of an echo child ("hello world\n" in the tests)
ChildOutput == [i \in 1..MaxOut |-> 10 + i]
ChildErrOutput == [i \in 1..MaxErr |-> 20 + i]

\* ProcessStream::new: the three pipes taken from the child, no residual, the
\* source not closed
InitPS ==
  /\ LimitIdle
  /\ HdrIdle
  /\ srcAll \in SourceStreams
  /\ input = srcAll
  /\ stdin = TRUE /\ stdout = TRUE /\ stderr = TRUE
  /\ input_buffer = <<>>
  /\ input_closed = FALSE
  /\ output_buffer_size \in 1..MaxBufSize
  /\ childKind \in {"echo", "cat"}
  /\ childOut = IF childKind = "echo" THEN ChildOutput ELSE <<>>
  /\ childErr = <<>>
  /\ catPos = 0
  /\ stdinRecv = <<>>
  /\ outPipe = <<>> /\ outClosed = FALSE
  /\ errPipe = <<>> /\ errClosed = FALSE
  /\ emitted = <<>> /\ psResult = "none" /\ polled = <<>>
  /\ wakers = {} /\ driven = "ProcessStream"

\* What AsyncWrite::poll_write on the stdin pipe can answer for buffer v:
\* Ready(Ok(n)) with 0 <= n <= len (n as such), Ready(Err) (-1), Pending (-2).
WriteOutcomes(v) == (-2)..Len(v)

\* push_to_stdin keeping the whole chunk as residual after a short write
PushToStdinKeepsAll(v, w) ==
  IF w >= 0
  THEN [poll |-> "Pending", delete_stdin |-> (w = 0),
        tampon |-> IF w < Len(v) THEN <<v>> ELSE <<>>,
        accepted |-> SubSeq(v, 1, w)]
  ELSE IF w = -1
  THEN [poll |-> "Err", delete_stdin |-> TRUE, tampon |-> <<>>, accepted |-> <<>>]
  ELSE [poll |-> "Pending", delete_stdin |-> FALSE, tampon |-> <<v>>,
        accepted |-> <<>>]

\* push_to_stdin dropping stdin after a write that took the whole buffer
PushToStdinClosesWhenDone(v, w) ==
  IF w >= 0
  THEN [poll |-> "Pending", delete_stdin |-> (w = Len(v)),
        tampon |-> IF w < Len(v) THEN <<SubSeq(v, w + 1, Len(v))>> ELSE <<>>,
        accepted |-> SubSeq(v, 1, w)]
  ELSE IF w = -1
  THEN [poll |-> "Err", delete_stdin |-> TRUE, tampon |-> <<>>, accepted |-> <<>>]
  ELSE [poll |-> "Pending", delete_stdin |-> FALSE, tampon |-> <<v>>,
        accepted |-> <<>>]

\* push_to_stdin(v, stdin, cx, tampon) when poll_write answers w: the poll to
\* return, delete_stdin, the residual left in tampon (None on entry at both
\* call sites) and the bytes the pipe took.
PushToStdin(v, w) ==
  IF w >= 0
  THEN [poll |-> "Pending", delete_stdin |-> (w = 0),
        tampon |-> IF w < Len(v) THEN <<SubSeq(v, w + 1, Len(v))>> ELSE <<>>,
        accepted |-> SubSeq(v, 1, w)]
  ELSE IF w = -1
  THEN [poll |-> "Err", delete_stdin |-> TRUE, tampon |-> <<>>, accepted |-> <<>>]
  ELSE [poll |-> "Pending", delete_stdin |-> FALSE, tampon |-> <<v>>,
        accepted |-> <<>>]

\* the part of poll_next that hands v to push_to_stdin
PushStep(v, w, ends) ==
  LET res == PushToStdin(v, w) IN
  /\ w \in WriteOutcomes(v)
  /\ stdin' = ~res.delete_stdin
  /\ input_buffer' = res.tampon
  /\ stdinRecv' = stdinRecv \o res.accepted
  /\ psResult' = res.poll
  /\ polled' = ends
  /\ wakers' = IF w = -2 THEN {"stdin"} ELSE {}

\* a poll_next that pulls the next chunk without looking at input_buffer
PollNextIgnoresResidual(srcReady, w) ==
  /\ stdin /\ ~input_closed /\ srcReady
  /\ input # <<>> /\ ~Head(input).err
  /\ input' = Tail(input)
  /\ PushStep(Head(input).data, w, <<"input", "stdin">>)
  /\ UNCHANGED input_closed
  /\ UNCHANGED <<stdout, stderr, output_buffer_size, childKind, childOut,
                 childErr, catPos, outPipe, outClosed, errPipe, errClosed,
                 srcAll, emitted>>
  /\ UNCHANGED <<limVars, hdrVars, driven>>

\* a poll_next that polls the source whatever input_closed says
PollNextPollsClosedSource(srcReady, w) ==
  /\ srcReady /\ w = -2
  /\ input # <<>>
  /\ input' = Tail(input)
  /\ input_closed' = TRUE
  /\ psResult' = "Err"
  /\ polled' = <<"input">>
  /\ wakers' = {}
  /\ UNCHANGED <<stdin, input_buffer, stdinRecv>>
  /\ UNCHANGED <<stdout, stderr, output_buffer_size, childKind, childOut,
                 childErr, catPos, outPipe, outClosed, errPipe, errClosed,
                 srcAll, emitted>>
  /\ UNCHANGED <<limVars, hdrVars, driven>>

\* ProcessStream::poll_next.  srcReady: the source has its next item (or its
\* end) ready; w: the answer of poll_write.  Both are fixed (TRUE, -2) on the
\* paths that do not ask.
PollNext(srcReady, w) ==
  /\ IF stdin
     THEN IF input_buffer # <<>>
          THEN /\ srcReady
               /\ PushStep(input_buffer[1], w, <<"stdin">>)
               /\ UNCHANGED <<input, input_closed>>
          ELSE IF ~input_closed
          THEN IF ~srcReady
               THEN \* Poll::Pending from the source
                    /\ w = -2
                    /\ psResult' = "Pending"
                    /\ polled' = <<"input">>
                    /\ wakers' = {"input"}
                    /\ UNCHANGED <<input, input_closed, stdin, input_buffer,
                                   stdinRecv>>
               ELSE IF input = <<>>
               THEN \* Poll::Ready(None): the source ended, stdin is dropped
                    /\ w = -2
                    /\ input_closed' = TRUE
                    /\ stdin' = FALSE
                    /\ psResult' = "Pending"
                    /\ polled' = <<"input">>
                    /\ wakers' = {}
                    /\ UNCHANGED <<input, input_buffer, stdinRecv>>
               ELSE IF Head(input).err
               THEN /\ w = -2
                    /\ input' = Tail(input)
                    /\ input_closed' = TRUE
                    /\ psResult' = "Err"
                    /\ polled' = <<"input">>
                    /\ wakers' = {}
                    /\ UNCHANGED <<stdin, input_buffer, stdinRecv>>
               ELSE /\ input' = Tail(input)
                    /\ PushStep(Head(input).data, w, <<"input", "stdin">>)
                    /\ UNCHANGED input_closed
          ELSE /\ srcReady /\ w = -2
               /\ psResult' = "Pending"
               /\ polled' = <<>>
               /\ wakers' = {}
               /\ UNCHANGED <<input, input_closed, stdin, input_buffer, stdinRecv>>
     ELSE \* "default response"
          /\ srcReady /\ w = -2
          /\ psResult' = "Pending"
          /\ polled' = <<>>
          /\ wakers' = {}
          /\ UNCHANGED <<input, input_closed, stdin, input_buffer, stdinRecv>>
  /\ UNCHANGED <<stdout, stderr, output_buffer_size, childKind, childOut,
                 childErr, catPos, outPipe, outClosed, errPipe, errClosed,
                 srcAll, emitted>>
  /\ UNCHANGED <<limVars, hdrVars, driven>>

\* ---- the child ----

\* the child writes the next byte of its output to its stdout; cat writes the
\* next byte it has read from its stdin
ChildWriteOut ==
  /\ ~outClosed
  /\ IF childKind = "echo"
     THEN /\ childOut # <<>>
          /\ outPipe' = Append(outPipe, Head(childOut))
          /\ childOut' = Tail(childOut)
          /\ UNCHANGED catPos
     ELSE /\ catPos < Len(stdinRecv)
          /\ outPipe' = Append(outPipe, stdinRecv[catPos + 1])
          /\ catPos' = catPos + 1
          /\ UNCHANGED childOut
  /\ UNCHANGED <<input, stdin, stdout, stderr, input_buffer, input_closed,
                 output_buffer_size, childKind, childErr, stdinRecv, outClosed,
                 errPipe, errClosed, srcAll, emitted, psResult, polled>>
  /\ UNCHANGED <<limVars, hdrVars, driven, wakers>>

ChildWriteErr ==
  /\ ~errClosed
  /\ childErr # <<>>
  /\ errPipe' = Append(errPipe, Head(childErr))
  /\ childErr' = Tail(childErr)
  /\ UNCHANGED <<input, stdin, stdout, stderr, input_buffer, input_closed,
                 output_buffer_size, childKind, childOut, catPos, stdinRecv,
                 outPipe, outClosed, errClosed, srcAll, emitted, psResult, polled>>
  /\ UNCHANGED <<limVars, hdrVars, driven, wakers>>

\* the child has written all it had to: echo at once, cat when it has copied
\* everything and its stdin was closed by the other side
ChildFinished ==
  IF childKind = "echo" THEN childOut = <<>>
  ELSE ~stdin /\ catPos = Len(stdinRecv)

\* the child closes its stdout (at the latest by exiting)
ChildCloseOut ==
  /\ ~outClosed
  /\ ChildFinished
  /\ outClosed' = TRUE
  /\ UNCHANGED <<input, stdin, stdout, stderr, input_buffer, input_closed,
                 output_buffer_size, childKind, childOut, childErr, catPos,
                 stdinRecv, outPipe, errPipe, errClosed, srcAll, emitted,
                 psResult, polled>>
  /\ UNCHANGED <<limVars, hdrVars, driven, wakers>>

\* the child closes its stderr (at the latest by exiting)
ChildCloseErr ==
  /\ ~errClosed
  /\ childErr = <<>>
  /\ errClosed' = TRUE
  /\ UNCHANGED <<input, stdin, stdout, stderr, input_buffer, input_closed,
                 output_buffer_size, childKind, childOut, childErr, catPos,
                 stdinRecv, outPipe, outClosed, errPipe, srcAll, emitted,
                 psResult, polled>>
  /\ UNCHANGED <<limVars, hdrVars, driven, wakers>>

ChildStep == ChildWriteOut \/ ChildWriteErr \/ ChildCloseOut \/ ChildCloseErr

NextPS ==
  \/ \E srcReady \in BOOLEAN, w \in (-2)..MaxChunkLen : PollNext(srcReady, w)
  \/ ChildWriteOut
  \/ ChildCloseOut
  \/ ChildCloseErr

SpecPS == InitPS /\ [][NextPS]_vars

\* a poll in which the source had its item ready and the pipe took all it was
\* given
PollProgress ==
  \E w \in (-2)..MaxChunkLen :
    PollNext(TRUE, w) /\ input_buffer' = <<>> /\ psResult' # "Err"

\* The consumer polls the stream again and again (more than the wakers of
\* poll_next promise), a ready source and a ready pipe are not put off for
\* ever, and the child keeps running.
FairPS ==
  /\ SpecPS
  /\ WF_vars(PollProgress)
  /\ WF_vars(ChildWriteOut) /\ WF_vars(ChildCloseOut) /\ WF_vars(ChildCloseErr)

(***************************************************************************)
(* Claims about ProcessStream (checked under SpecPS and FairPS).           *)
(***************************************************************************)

\* the chunks of a sequence of source items
Chunks(items) == [i \in 1..Len(items) |-> items[i].data]

\* the request body: the bytes of all chunks of the source, in source order
BodyBytes == Flatten(Chunks(srcAll))

\* the items the stream has pulled from the source so far
Pulled == SubSeq(srcAll, 1, Len(srcAll) - Len(input))

Residual == IF input_buffer = <<>> THEN <<>> ELSE input_buffer[1]

\* C4: whatever the chunking of the request body and whatever the stdin pipe
\* answers (full, short, zero-size, pending, error), the bytes the pipe has
\* accepted are a prefix of the request body; while stdin is open the bytes
\* accepted followed by the residual are exactly the chunks pulled so far (no
\* byte lost, repeated or overtaken by a newer chunk); and once the source has
\* reported its end the pipe has accepted the whole body.
C4_StdinInSourceOrder ==
  /\ IsPrefix(stdinRecv, BodyBytes)
  /\ stdin => stdinRecv \o Residual = Flatten(Chunks(Pulled))
  /\ (input_closed /\ \A i \in 1..Len(srcAll) : ~srcAll[i].err)
       => stdinRecv = BodyBytes

\* the first chunk went through, the second was written short and its tail is
\* waiting as the residual, to be sent before anything newer
C4_Witness ==
  /\ stdin
  /\ Len(srcAll) = 2 /\ input = <<>>
  /\ Len(srcAll[1].data) = 1 /\ Len(srcAll[2].data) = 2
  /\ stdinRecv = <<1, 2>>
  /\ input_buffer = <<(<<3>>)>>

Range(f) == {f[i] : i \in DOMAIN f}

\* the bytes of the emitted chunks tagged t, concatenated
EmittedAs(t) ==
  Flatten([i \in 1..Len(emitted) |->
             IF emitted[i].tag = t THEN emitted[i].bytes ELSE <<>>])

NoSourceError == \A i \in 1..Len(srcAll) : ~srcAll[i].err

\* C6: for a child with a fixed output and an empty request body the stream
\* delivers exactly that output, in order, as stdout chunks and then ends,
\* whatever output_buffer_size is.
C6_EchoOutputDelivered ==
  (childKind = "echo" /\ srcAll = <<>>)
    => <>(psResult = "Done" /\ EmittedAs("Stdout") = ChildOutput)

\* stdin was dropped before the source ended: the pipe refused a write
StdinRefused == ~stdin /\ ~input_closed

\* C7: for a child that copies its stdin to its stdout and exits at
\* end-of-file, and a finite request body, the stream ends and its stdout
\* chunks add up to the request body (unless the pipe refused a write).
C7_CatEchoesBody ==
  (childKind = "cat" /\ NoSourceError)
    => <>(\/ psResult = "Done" /\ EmittedAs("Stdout") = BodyBytes
          \/ StdinRefused)

\* both pipes have nothing left and are closed: a read of either is zero-length
BothAtEof == outClosed /\ outPipe = <<>> /\ errClosed /\ errPipe = <<>>

\* C8: the stream reports end-of-stream only when stdout and stderr have each
\* reported a zero-length read, and once both are at end-of-file a later step
\* does report end-of-stream.
C8_EndIffBothEof ==
  /\ [](psResult = "Done" => (~stdout /\ ~stderr))
  /\ (BothAtEof ~> psResult = "Done")

\* a step of the stream
PollStep == \E srcReady \in BOOLEAN, w \in (-2)..MaxChunkLen : PollNext(srcReady, w)

\* C9: in every step stdout is polled first unless known closed, stderr is
\* polled only after stdout gave no item, and the source and stdin are touched
\* only in a step in which neither output gave an item.
C9_PriorityOrder ==
  [][PollStep =>
       /\ stdout => (polled' # <<>> /\ polled'[1] = "stdout")
       /\ "stderr" \in Range(polled') =>
            ~(psResult' = "Item" /\ emitted'[Len(emitted')].origin = "stdout")
       /\ (Range(polled') \cap {"input", "stdin"}) # {} => psResult' # "Item"]_vars

\* the source has reported its end (not an error) to the stream
SourceEnded == input_closed /\ \A i \in 1..Len(Pulled) : ~Pulled[i].err

\* C11 (as amended): stdin is closed at most once and never reopened; it is
\* closed in the step in which the source reports its end, when no residual
\* is left and all pulled bytes have been accepted, or earlier in a step in
\* which the pipe accepts zero bytes or fails the write; it is never open
\* once the source has reported its end.
C11_StdinClosedAtSourceEndOrRefusal ==
  /\ [](SourceEnded => ~stdin)
  /\ [][~stdin => ~stdin']_vars
  /\ [][(stdin /\ ~stdin') =>
          \/ /\ ~input_closed /\ SourceEnded'
             /\ input_buffer = <<>>
             /\ stdinRecv = BodyBytes
          \/ \E srcReady \in BOOLEAN :
               PollNext(srcReady, 0) \/ PollNext(srcReady, -1)]_vars

\* two chunks went through whole and stdin was closed when the source ended
C11_Witness ==
  /\ ~stdin /\ input_closed
  /\ Len(srcAll) = 2 /\ Len(BodyBytes) = 3
  /\ stdinRecv = BodyBytes
  /\ input_buffer = <<>>

\* C11 (as stated): stdin is closed only in the step in which the source
\* reports its end, not earlier while source data is pending (a failed write
\* apart), and is not open after the source has ended.
C11_StdinClosedOnlyAtSourceEnd ==
  /\ [](SourceEnded => ~stdin)
  /\ [][(stdin /\ ~stdin' /\ psResult' # "Err") =>
          (~input_closed /\ SourceEnded' /\ input_buffer = <<>>)]_vars

IsSuffix(a, b) == Len(a) <= Len(b) /\ SubSeq(b, Len(b) - Len(a) + 1, Len(b)) = a

\* C12: no step pulls from the request-body source while a residual exists,
\* and the residual is never more than the unwritten tail of the one chunk
\* pulled last: at most one chunk is in flight toward stdin.
C12_NoPullWhileResidual ==
  /\ [](input_buffer # <<>> =>
          /\ Len(input_buffer) = 1
          /\ Pulled # <<>>
          /\ ~Pulled[Len(Pulled)].err
          /\ IsSuffix(Residual, Pulled[Len(Pulled)].data))
  /\ [][input_buffer # <<>> => input' = input]_vars
  /\ [][(PollStep /\ input_buffer # <<>>) => "input" \notin Range(polled')]_vars

\* a step has just retried the residual, left a tail of it, and did not touch
\* the source, which has another chunk ready
C12_Witness ==
  /\ polled = <<"stdin">>
  /\ input_buffer = <<(<<2>>)>>
  /\ stdinRecv = <<1>>
  /\ Len(input) = 1 /\ ~input[1].err /\ input[1].data # <<>>

\* C14: a residual is held only while stdin is open; none is retained once
\* stdin has been dropped (after a zero-size accepted write or a write error).
C14_ResidualOnlyWhileStdinOpen == input_buffer # <<>> => stdin

\* C15: a step that reports pending has left the task's waker with at least
\* one endpoint: it does not report pending after operations that all
\* completed at once (a write that was accepted, whole or short, or the end
\* of the source).
C15_PendingHasWaker == psResult = "Pending" => wakers # {}

(***************************************************************************)
(* PSStatus (src/src/process.rs): the step over stdout and stderr.         *)
(* ProcessStream::poll_next does not call it; it is driven on its own,     *)
(* under SpecStatus.                                                       *)
(***************************************************************************)

\* a PSStatus with its three handles, beside a child that writes to both pipes
InitStatus ==
  /\ LimitIdle
  /\ HdrIdle
  /\ srcAll = <<>> /\ input = <<>>
  /\ stdin = TRUE /\ stdout = TRUE /\ stderr = TRUE
  /\ input_buffer = <<>>
  /\ input_closed = FALSE
  /\ output_buffer_size \in 1..MaxBufSize
  /\ childKind = "echo"
  /\ childOut \in {SubSeq(ChildOutput, 1, n) : n \in 0..MaxOut}
  /\ childErr \in {SubSeq(ChildErrOutput, 1, n) : n \in 0..MaxErr}
  /\ catPos = 0
  /\ stdinRecv = <<>>
  /\ outPipe = <<>> /\ outClosed = FALSE
  /\ errPipe = <<>> /\ errClosed = FALSE
  /\ emitted = <<>> /\ psResult = "none" /\ polled = <<>>
  /\ wakers = {} /\ driven = "PSStatus"

\* AsyncRead::poll_read on a pipe: Ready(Ok) with data, Ready(Ok) with nothing
\* read at end-of-file, Ready(Err), or Pending while the pipe is empty and open
ReadOf(pipe, closed, ioErr) ==
  IF ioErr THEN "Err"
  ELSE IF pipe # <<>> THEN "Data"
  ELSE IF closed THEN "Eof"
  ELSE "Pending"

\* readbuf.filled() of a read into vec![0; output_buffer_size]
Filled(pipe) == SubSeq(pipe, 1, Min(Len(pipe), output_buffer_size))

\* PSStatus::next_stderr entered with self.stdout as stdoutNow; ioErr: the
\* read fails.  todo!() panics.
NextStderr(stdoutNow, ioErr) ==
  LET same == [res |-> "Pending", item |-> <<>>, taken |-> 0,
               stderr |-> stderr, stdin |-> stdin, polled |-> <<"stderr">>]
      closed == IF ~stdoutNow
                THEN [same EXCEPT !.res = "Done", !.stdin = FALSE]
                ELSE [same EXCEPT !.res = "Panic"]
  IN
  IF stderr
  THEN CASE ReadOf(errPipe, errClosed, ioErr) = "Data" ->
              [same EXCEPT !.res = "Item",
                           !.item = <<[tag |-> "Stdout", origin |-> "stderr",
                                       bytes |-> Filled(errPipe)]>>,
                           !.taken = Len(Filled(errPipe))]
         [] ReadOf(errPipe, errClosed, ioErr) = "Eof" ->
              [closed EXCEPT !.stderr = FALSE]
         [] ReadOf(errPipe, errClosed, ioErr) = "Err" ->
              [same EXCEPT !.res = "Err"]
         [] OTHER -> [same EXCEPT !.res = "Panic"]
  ELSE [closed EXCEPT !.polled = <<>>]

\* PSStatus::next_step.  outErr, errErr: the read of stdout, of stderr fails
\* (FALSE on the paths that do not read).  Nothing runs after a panic.
NextStep(outErr, errErr) ==
  /\ psResult # "Panic"
  /\ IF stdout /\ ReadOf(outPipe, outClosed, outErr) = "Data"
     THEN /\ ~errErr
          /\ emitted' = Append(emitted, [tag |-> "Stdout", origin |-> "stdout",
                                         bytes |-> Filled(outPipe)])
          /\ outPipe' = SubSeq(outPipe, Len(Filled(outPipe)) + 1, Len(outPipe))
          /\ psResult' = "Item"
          /\ polled' = <<"stdout">>
          /\ wakers' = {}
          /\ UNCHANGED <<stdout, stderr, stdin, errPipe>>
     ELSE IF stdout /\ ReadOf(outPipe, outClosed, outErr) = "Err"
     THEN /\ ~errErr
          /\ psResult' = "Err"
          /\ polled' = <<"stdout">>
          /\ wakers' = {}
          /\ UNCHANGED <<stdout, stderr, stdin, outPipe, errPipe, emitted>>
     ELSE LET eof == stdout /\ ReadOf(outPipe, outClosed, outErr) = "Eof"
              r == NextStderr(stdout /\ ~eof, errErr)
          IN /\ (~stdout => ~outErr)
             /\ (~stderr => ~errErr)
             /\ stdout' = (stdout /\ ~eof)
             /\ stderr' = r.stderr
             /\ stdin' = r.stdin
             /\ emitted' = emitted \o r.item
             /\ errPipe' = SubSeq(errPipe, r.taken + 1, Len(errPipe))
             /\ psResult' = r.res
             /\ polled' = (IF stdout THEN <<"stdout">> ELSE <<>>) \o r.polled
             /\ wakers' =
                  (IF stdout /\ ReadOf(outPipe, outClosed, outErr) = "Pending"
                   THEN {"stdout"} ELSE {})
                  \cup (IF stderr /\ ReadOf(errPipe, errClosed, errErr) = "Pending"
                        THEN {"stderr"} ELSE {})
             /\ UNCHANGED outPipe
  /\ UNCHANGED <<input, input_buffer, input_closed, output_buffer_size,
                 childKind, childOut, childErr, catPos, stdinRecv, outClosed,
                 errClosed, srcAll>>
  /\ UNCHANGED <<limVars, hdrVars, driven>>

NextStatus ==
  \/ \E outErr \in BOOLEAN, errErr \in BOOLEAN : NextStep(outErr, errErr)
  \/ ChildWriteOut
  \/ ChildWriteErr
  \/ ChildCloseOut
  \/ ChildCloseErr

SpecStatus == InitStatus /\ [][NextStatus]_vars

\* C10: every non-empty read of the child's stdout is emitted as a stdout
\* chunk and every non-empty read of its stderr as a stderr chunk, so that no
\* byte written to standard error shows in the stdout-only view.
C10_StderrTaggedStderr ==
  /\ \A i \in 1..Len(emitted) :
       emitted[i].tag = (IF emitted[i].origin = "stdout" THEN "Stdout" ELSE "Stderr")
  /\ Range(EmittedAs("Stdout")) \cap Range(ChildErrOutput) = {}

(***************************************************************************)
(* The two objects of src/src/process.rs side by side: a run steps either a *)
(* ProcessStream (poll_next) or a PSStatus (next_step), beside its child.   *)
(***************************************************************************)
InitEndpoints == InitPS \/ InitStatus

NextEndpoints ==
  \/ driven = "ProcessStream" /\ NextPS
  \/ driven = "PSStatus" /\ NextStatus

SpecEndpoints == InitEndpoints /\ [][NextEndpoints]_vars

\* a step of PSStatus
StatusStep == \E outErr \in BOOLEAN, errErr \in BOOLEAN : NextStep(outErr, errErr)

\* C13: once an endpoint has been observed closed (input_closed set, or the
\* handle of stdin, stdout or stderr replaced by None) no later step polls
\* it, pulls from it, reads from it or writes to it.
C13_ClosedEndpointUntouched ==
  [][(PollStep \/ StatusStep) =>
       /\ input_closed => ("input" \notin Range(polled') /\ input' = input)
       /\ ~stdin => ("stdin" \notin Range(polled') /\ stdinRecv' = stdinRecv)
       /\ ~stdout => ("stdout" \notin Range(polled') /\ outPipe' = outPipe)
       /\ ~stderr => ("stderr" \notin Range(polled') /\ errPipe' = errPipe)]_vars

\* stdout was seen closed in an earlier step that gave a chunk; the latest
\* step went to stderr only and ended the stream
C13_Witness ==
  /\ driven = "PSStatus"
  /\ ~stdout /\ ~stderr
  /\ emitted # <<>>
  /\ polled = <<"stderr">>
  /\ psResult = "Done"

(***************************************************************************)
(* Header parser and response assembler of Script::serve                   *)
(* (src/cgi-rs/src/server.rs), from StreamReader::new on.  A byte stream   *)
(* is a sequence of tokens: a word (a run of characters other than ':',    *)
(* blank, CR and LF), or one of ":", " ", "\r", "\n".                      *)
(***************************************************************************)

\* the white space str::trim removes
WS == {" ", "\r", "\n", "\t"}

\* the lines a child is tried with
LineSet ==
  { <<"Content-Type", ":", " ", "text">>,
    <<"Status", ":", " ", "404", " ", "NF">>,
    <<"Location", ":", "/next">>,
    <<"X-Foo", ":", "bar">>,
    <<" ">> }

\* lines the header loop has to pass over: a Status that does not parse, a
\* Status out of the range of status codes (below and above), a line without
\* a colon, a key that is not a header name, a value that is not a header
\* value (a carriage return inside)
OddLines ==
  { <<"Status", ":", " ", "abc">>,
    <<"Status", ":", " ", "99", " ", "Low">>,
    <<"Status", ":", "1000">>,
    <<"nocolon", " ", "here">>,
    <<"X", " ", "Y", ":", " ", "v">>,
    <<"X-Bar", ":", " ", "a", "\r", "b">> }

\* the three keys the loop knows, in another letter case
SpellingLines ==
  { <<"content-type", ":", " ", "text">>,
    <<"status", ":", " ", "404">>,
    <<"location", ":", "/next">> }

\* a Location and a Content-Type whose value is not a header value
BadValueLines ==
  { <<"Location", ":", " ", "a", "\r", "b">>,
    <<"Content-Type", ":", " ", "a", "\r", "b">> }

\* the header lines of LineSet
GoodLines == LineSet \ { <<" ">> }

\* at most one header line before
Around == { <<>> } \cup { <<g>> : g \in GoodLines }

\* an odd line alone, or with a header line before it, after it, or both
OddBlocks ==
  { pre \o <<o>> \o post :
      pre \in Around, o \in OddLines \cup SpellingLines \cup BadValueLines,
      post \in Around }

HeaderBlocks == UNION {[1..n -> LineSet] : n \in 0..MaxHdrLines} \cup OddBlocks

EOLs == { <<"\r", "\n">>, <<"\n">> }

\* what follows the header block; it holds a line feed of its own
BodyTokens == <<"b1", "\n", "b2", "b3">>

WithEol(block, eol) == Flatten([i \in 1..Len(block) |-> block[i] \o eol])

\* header lines, then the empty line (or none: the output ends there), then
\* some bytes
ChildStdouts ==
  { WithEol(block, eol) \o (IF blank THEN eol ELSE <<>>)
      \o SubSeq(BodyTokens, 1, n) :
    block \in HeaderBlocks, eol \in EOLs, blank \in BOOLEAN, n \in 0..MaxBodyLen }

\* the first index of token t in l, 0 if none
IndexOf(l, t) ==
  IF \E i \in 1..Len(l) : l[i] = t
  THEN CHOOSE i \in 1..Len(l) : l[i] = t /\ \A j \in 1..(i - 1) : l[j] # t
  ELSE 0

\* str::trim
Trim(l) ==
  IF \A i \in 1..Len(l) : l[i] \in WS THEN <<>>
  ELSE LET a == CHOOSE i \in 1..Len(l) :
                  l[i] \notin WS /\ \A j \in 1..(i - 1) : l[j] \in WS
           b == CHOOSE i \in 1..Len(l) :
                  l[i] \notin WS /\ \A j \in (i + 1)..Len(l) : l[j] \in WS
       IN SubSeq(l, a, b)

\* str::parse::<u16> of the words used as status codes; -1 for an error
ParseU16(word) ==
  CASE word = "200" -> 200
    [] word = "302" -> 302
    [] word = "404" -> 404
    [] word = "99" -> 99
    [] word = "1000" -> 1000
    [] OTHER -> -1

\* StatusCode::from_u16 accepts 100..=999
ValidStatus(code) == code >= 100 /\ code <= 999

\* HeaderName::try_from: one word
ValidName(k) == Len(k) = 1 /\ k[1] \notin (WS \cup {":"})

\* HeaderValue::try_from: no control character (tab apart)
ValidValue(v) == \A i \in 1..Len(v) : v[i] \notin {"\r", "\n"}

\* the Transfer-Encoding headers a request is tried with: none, one or two
\* header lines
TEHeaders ==
  { <<>>, <<"chunked">>, <<"Chunked">>, <<"gzip">>, <<"gzip, chunked">>,
    <<"gzip", "chunked">> }

\* HeaderMap::get: the first value of the header, if any
Get(values) == IF values = <<>> THEN <<>> ELSE <<values[1]>>

(***************************************************************************)
(* The environment of the child (Script::serve, src/cgi-rs/src/server.rs   *)
(* lines 94 to 246).  A header value and a path are sequences of tokens,   *)
(* as the child's output is; Str gives their text.                         *)
(***************************************************************************)

\* HashMap::new and HashMap::insert
NoEnv == [k \in {} |-> ""]

Insert(e, k, v) == (k :> v) @@ e

RECURSIVE Str(_)
Str(s) == IF s = <<>> THEN "" ELSE s[1] \o Str(Tail(s))

\* a token of bytes that are not visible ASCII: HeaderValue::to_str refuses
\* the value that holds it
OpaqueToken == "\\xE9"

ToStrOk(v) == \A i \in 1..Len(v) : v[i] # OpaqueToken

\* HeaderName: the name in lower case, whatever the case it was sent in
Lower(n) ==
  CASE n \in {"Proxy", "PROXY", "proxy", "pRoXy"} -> "proxy"
    [] n \in {"Cookie", "cookie", "COOKIE"} -> "cookie"
    [] n \in {"X-Foo", "x-foo", "X-FOO"} -> "x-foo"
    [] n \in {"Host", "host", "HOST"} -> "host"
    [] n \in {"Content-Length", "content-length", "CONTENT-LENGTH"} -> "content-length"
    [] n \in {"Content-Type", "content-type", "CONTENT-TYPE"} -> "content-type"
    [] n \in {"Transfer-Encoding", "transfer-encoding", "TRANSFER-ENCODING"} ->
         "transfer-encoding"

\* str::to_uppercase of a header name
Upper(n) ==
  CASE n = "proxy" -> "PROXY"
    [] n = "cookie" -> "COOKIE"
    [] n = "x-foo" -> "X-FOO"
    [] n = "host" -> "HOST"
    [] n = "content-length" -> "CONTENT-LENGTH"
    [] n = "content-type" -> "CONTENT-TYPE"
    [] n = "transfer-encoding" -> "TRANSFER-ENCODING"

\* the header lines a request is tried with: the name as sent and the value
ReqHeaderLines ==
  { <<"Proxy", <<"evil">> >>, <<"PROXY", <<"evil">> >>, <<"pRoXy", <<"evil">> >>,
    <<"Cookie", <<"a=1">> >>, <<"cookie", <<"b=2">> >>,
    <<"X-Foo", <<"x">> >>, <<"x-foo", <<OpaqueToken>> >>,
    <<"Host", <<"h">> >>, <<"Host", <<"h", ":", "8080">> >>,
    <<"Content-Length", <<"7">> >>, <<"Content-Length", <<"4294967296">> >>,
    <<"Content-Type", <<"text/plain">> >> }

ReqHeaders == UNION {[1..n -> ReqHeaderLines] : n \in 0..MaxReqHeaders}

\* method, path and query of the requests tried (no query: <<>>)
ReqTargets ==
  { [method |-> "GET", path |-> <<"/cgi", "/x">>, query |-> <<>>],
    [method |-> "POST", path |-> <<"/cgi", "-bin", "/x">>, query |-> <<"a=1">>] }

\* the environments of the server process tried
HostEnvs ==
  { NoEnv,
    ("PATH" :> "/opt/bin") @@ ("FOO" :> "bar") @@ ("SECRET" :> "s3"),
    ("PATH" :> "") @@ ("LD_LIBRARY_PATH" :> "/lib") @@ ("FOO" :> ""),
    ("PATH" :> "/opt/bin") @@ ("HTTP_PROXY" :> "http://corp")
       @@ ("REQUEST_METHOD" :> "HOST") @@ ("LD_LIBRARY_PATH" :> "/lib") }

\* the script descriptors tried: root, env and inherited_env
Scripts ==
  { [root |-> <<>>, env |-> <<>>, inherited_env |-> <<>>],
    [root |-> <<"/cgi">>, env |-> << <<"FOO", "own">> >>,
     inherited_env |-> <<"FOO", "PATH">>],
    [root |-> <<"/cgi">>,
     env |-> << <<"REQUEST_METHOD", "one">>, <<"REQUEST_METHOD", "two">> >>,
     inherited_env |-> <<"REQUEST_METHOD">>],
    [root |-> <<>>,
     env |-> << <<"PATH", "/own">>, <<"LD_LIBRARY_PATH", "/ownlib">>,
                <<"HTTP_X-FOO", "own">> >>,
     inherited_env |-> <<"FOO">>] }

\* a request, a host and a script with nothing in them
PlainReq == [method |-> "GET", path |-> <<"/">>, query |-> <<>>, headers |-> <<>>]

PlainScript == [root |-> <<>>, env |-> <<>>, inherited_env |-> <<>>]

\* the Script of the server, the peer of the connection
ScriptPath == "/srv/app.cgi"

RemoteIp == "192.0.2.7"

RemotePort == "50000"

\* the header map of the request: the lines of req.headers, and the
\* Transfer-Encoding ones
HeaderMap ==
  req.headers \o [i \in 1..Len(transfer_encoding) |->
                    <<"Transfer-Encoding", <<transfer_encoding[i]>> >>]

\* HeaderMap::keys
Keys(h) == { Lower(h[i][1]) : i \in 1..Len(h) }

\* HeaderMap::get_all: the values of a name, in the order they came
RECURSIVE GetAll(_, _)
GetAll(h, n) ==
  IF h = <<>> THEN <<>>
  ELSE (IF Lower(h[1][1]) = n THEN <<h[1][2]>> ELSE <<>>) \o GetAll(Tail(h), n)

\* the fold of the export loop: the values after the first that to_str
\* accepts, each after the separator
RECURSIVE JoinRest(_, _)
JoinRest(vs, sep) ==
  IF vs = <<>> THEN ""
  ELSE (IF ToStrOk(vs[1]) THEN sep \o Str(vs[1]) ELSE "") \o JoinRest(Tail(vs), sep)

\* the export loop without the test for PROXY
ExportOneKeepsProxy(e, n) ==
  LET k == Upper(n)
      join_str == IF k = "COOKIE" THEN ";" ELSE ","
      vs == GetAll(HeaderMap, Lower(k))
  IN IF vs # <<>> /\ ToStrOk(vs[1])
     THEN Insert(e, "HTTP_" \o k, Str(vs[1]) \o JoinRest(Tail(vs), join_str))
     ELSE e

\* one turn of the export loop, for the header name n
ExportOne(e, n) ==
  LET k == Upper(n)
      join_str == IF k = "COOKIE" THEN ";" ELSE ","
      vs == GetAll(HeaderMap, Lower(k))
  IN IF k = "PROXY" THEN e
     ELSE IF vs # <<>> /\ ToStrOk(vs[1])
     THEN Insert(e, "HTTP_" \o k, Str(vs[1]) \o JoinRest(Tail(vs), join_str))
     ELSE e

RECURSIVE ExportAll(_, _)
ExportAll(e, names) ==
  IF names = {} THEN e
  ELSE LET n == CHOOSE x \in names : TRUE
       IN ExportAll(ExportOne(e, n), names \ {n})

\* str::parse::<u16> of a port and to_string of the result; "" for an error
ParsePort(word) ==
  CASE word = "8080" -> "8080"
    [] OTHER -> ""

\* str::parse::<u32> of a length and to_string of the result; "" for an error
ParseU32(word) ==
  CASE word = "7" -> "7"
    [] OTHER -> ""

\* get_host_port: exactly two parts around ':', the second a u16
HostPort(v) ==
  LET c == IndexOf(v, ":")
      rest == SubSeq(v, c + 1, Len(v))
  IN IF c > 0 /\ IndexOf(rest, ":") = 0 /\ Len(rest) = 1 /\ ParsePort(rest[1]) # ""
     THEN <<Str(SubSeq(v, 1, c - 1)), ParsePort(rest[1])>>
     ELSE <<>>

\* the root of the script, "/" for an empty one
Root == IF script.root = <<>> THEN <<"/">> ELSE script.root

PathInfo ==
  IF Root # <<"/">> /\ IsPrefix(Root, req.path)
  THEN SubSeq(req.path, Len(Root) + 1, Len(req.path))
  ELSE req.path

\* lines 102 to 133: what comes from the server, the request line, the Host
\* header, the script and the peer
RequestStage(e) ==
  LET host == GetAll(HeaderMap, "host")
      e1 == Insert(Insert(Insert(e, "SERVER_SOFTWARE", "cgi-server-rs"),
                          "SERVER_PROTOCOL", "HTTP/1.1"),
                   "GATEWAY_INTERFACE", "CGI/1.1")
      e2 == IF host # <<>> /\ ToStrOk(host[1])
            THEN LET hp == HostPort(host[1])
                     h1 == Insert(e1, "HTTP_HOST", Str(host[1]))
                 IN IF hp # <<>>
                    THEN Insert(Insert(h1, "SERVER_NAME", hp[1]), "SERVER_PORT", hp[2])
                    ELSE Insert(Insert(h1, "SERVER_NAME", Str(host[1])),
                                "SERVER_PORT", "80")
            ELSE e1
      e3 == Insert(e2, "REQUEST_METHOD", req.method)
      e4 == IF req.query # <<>> THEN Insert(e3, "QUERY_STRING", Str(req.query))
            ELSE e3
      e5 == Insert(e4, "REQUEST_URI",
                   Str(req.path) \o (IF req.query # <<>> THEN "?" \o Str(req.query)
                                     ELSE ""))
      e6 == Insert(Insert(Insert(e5, "PATH_INFO", Str(PathInfo)),
                          "SCRIPT_NAME", Str(Root)),
                   "SCRIPT_FILENAME", ScriptPath)
  IN Insert(Insert(Insert(e6, "REMOTE_ADDR", RemoteIp), "REMOTE_HOST", RemoteIp),
            "REMOTE_PORT", RemotePort)

\* lines 135 to 157
HeaderStage(e) == ExportAll(e, Keys(HeaderMap))

\* lines 159 to 176
ContentStage(e) ==
  LET cl == GetAll(HeaderMap, "content-length")
      ct == GetAll(HeaderMap, "content-type")
      e1 == IF cl # <<>> /\ ToStrOk(cl[1]) /\ Len(cl[1]) = 1
               /\ ParseU32(cl[1][1]) # ""
            THEN Insert(e, "CONTENT_LENGTH", ParseU32(cl[1][1])) ELSE e
  IN IF ct # <<>> /\ ToStrOk(ct[1]) /\ Str(ct[1]) # ""
     THEN Insert(e1, "CONTENT_TYPE", Str(ct[1])) ELSE e1

\* std::env::var gives a value
HostHas(name) == name \in DOMAIN host_env /\ host_env[name] # ""

\* lines 178 to 192
PathStage(e) ==
  Insert(e, "PATH", IF HostHas("PATH") THEN host_env["PATH"]
                    ELSE "/bin:/usr/bin:/usr/ucb:/usr/bsd:/usr/local/bin")

\* copy the variables of a list that the host has
RECURSIVE CopyFromHost(_, _)
CopyFromHost(e, names) ==
  IF names = <<>> THEN e
  ELSE CopyFromHost(IF HostHas(names[1]) THEN Insert(e, names[1], host_env[names[1]])
                    ELSE e,
                    Tail(names))

\* lines 194 to 200
InheritedStage(e) == CopyFromHost(e, script.inherited_env)

\* the loader variables of a Linux build
OS_SPECIFIC_VARS == <<"LD_LIBRARY_PATH">>

\* lines 202 to 208
LoaderStage(e) == CopyFromHost(e, OS_SPECIFIC_VARS)

\* lines 210 to 212
RECURSIVE InsertAll(_, _)
InsertAll(e, pairs) ==
  IF pairs = <<>> THEN e
  ELSE InsertAll(Insert(e, pairs[1][1], pairs[1][2]), Tail(pairs))

ExplicitStage(e) == InsertAll(e, script.env)

\* the stages with the explicit list of the script applied first
BuildEnvExplicitFirst ==
  LoaderStage(InheritedStage(PathStage(ContentStage(HeaderStage(
    RequestStage(ExplicitStage(NoEnv)))))))

\* the map given to Command::envs
BuildEnv ==
  ExplicitStage(LoaderStage(InheritedStage(PathStage(ContentStage(HeaderStage(
    RequestStage(NoEnv)))))))

\* Command::envs on a Command that was not cleared: the child has the
\* environment of the server, with the entries of the map over it
Spawned(e) == e @@ host_env

\* the outputs a child is tried with when the request carries a
\* Transfer-Encoding header that lets it through
ShortStdouts == { s \in ChildStdouts : Len(s) <= 3 }

\* a request arrives; what the child writes matters only if it is spawned
InitHdr ==
  /\ LimitIdle
  /\ PSIdle
  /\ TBIdle
  /\ transfer_encoding \in TEHeaders
  /\ spawn_ok \in BOOLEAN
  /\ spawned = 0
  /\ req = PlainReq
  /\ script = PlainScript
  /\ host_env = NoEnv
  /\ env = NoEnv
  /\ child_env = NoEnv
  /\ childStdout \in ChildStdouts
  /\ (Get(transfer_encoding) = <<"chunked">> \/ ~spawn_ok) => childStdout = <<>>
  /\ transfer_encoding # <<>> => childStdout \in ShortStdouts
  /\ viewRest = <<>>
  /\ reader_chunk = <<>>
  /\ line = <<>>
  /\ hdrPhase = "start"
  /\ has_header = FALSE
  /\ status_code = 0
  /\ has_location_header = FALSE
  /\ has_content_type = FALSE
  /\ resp_headers = <<>>
  /\ resp_status = 0
  /\ resp_error = ""
  /\ resp_body = <<>>

\* What StreamReader::poll_fill_buf can find.  While it holds a non-empty
\* chunk it asks nothing (-2); else the stream gives a chunk of k >= 1 bytes,
\* its end (0) once the child's output is used up, or an error (-1).
FillOutcome(k) ==
  IF reader_chunk # <<>> THEN k = -2
  ELSE \/ k = -1
       \/ k = 0 /\ viewRest = <<>>
       \/ k >= 1 /\ k <= Len(viewRest)

Available(k) == IF k = -2 THEN reader_chunk ELSE SubSeq(viewRest, 1, k)

ViewAfter(k) ==
  IF k = -2 THEN viewRest ELSE SubSeq(viewRest, k + 1, Len(viewRest))

\* get_error_response: the handler returns (dropping process_reader, if it
\* has one); the caller says what becomes of reader_chunk and viewRest
ErrorResponse(code, msg) ==
  /\ hdrPhase' = "error"
  /\ resp_status' = code
  /\ resp_error' = msg
  /\ line' = <<>>
  /\ UNCHANGED <<childStdout, status_code, has_location_header,
                 has_content_type, resp_headers, resp_body>>

\* Script::serve up to StreamReader::new: the rejection of chunked requests,
\* the spawn of the child (the request is consumed: its body goes to the
\* process stream) and the answer to a failed spawn.
Serve ==
  /\ hdrPhase = "start"
  /\ IF Get(transfer_encoding) = <<"chunked">>
     THEN /\ ErrorResponse(400, "Chunked encoding is not supported by CGI.")
          /\ UNCHANGED <<transfer_encoding, spawn_ok, spawned, has_header,
                         viewRest, reader_chunk, env, child_env>>
     ELSE IF ~spawn_ok
     THEN /\ ErrorResponse(500, "Cannot run cgi executable {path} with error: {err}")
          /\ env' = BuildEnv
          /\ UNCHANGED <<transfer_encoding, spawn_ok, spawned, has_header,
                         viewRest, reader_chunk, child_env>>
     ELSE /\ spawned' = spawned + 1
          /\ env' = BuildEnv
          /\ child_env' = Spawned(BuildEnv)
          /\ transfer_encoding' = <<>>
          /\ hdrPhase' = "headers"
          /\ viewRest' = childStdout
          /\ UNCHANGED <<spawn_ok, childStdout, reader_chunk, line, has_header,
                         status_code, has_location_header, has_content_type,
                         resp_headers, resp_status, resp_error, resp_body>>
  /\ UNCHANGED <<limVars, psVars, tbVars, req, script, host_env>>

\* the code after the loop without the rule on Location
AfterLoopNoRedirect(hh) ==
  /\ has_header' = hh
  /\ IF ~hh THEN ErrorResponse(500, "No header read")
     ELSE IF ~has_content_type /\ status_code = 0
     THEN ErrorResponse(500, "Missing required Content-Type header")
     ELSE /\ hdrPhase' = "body"
          /\ resp_status' = IF status_code = 0 THEN 200 ELSE status_code
          /\ line' = <<>>
          /\ UNCHANGED <<childStdout, status_code, has_location_header,
                         has_content_type, resp_headers, resp_error, resp_body>>

\* the code after the loop without the check for a Content-Type
AfterLoopNoContentType(hh) ==
  LET sc == IF has_location_header /\ status_code = 0 THEN 302 ELSE status_code IN
  /\ has_header' = hh
  /\ IF ~hh THEN ErrorResponse(500, "No header read")
     ELSE /\ hdrPhase' = "body"
          /\ resp_status' = IF sc = 0 THEN 200 ELSE sc
          /\ line' = <<>>
          /\ UNCHANGED <<childStdout, status_code, has_location_header,
                         has_content_type, resp_headers, resp_error, resp_body>>

\* the code after the loop, with has_header as hh
AfterLoop(hh) ==
  LET sc == IF has_location_header /\ status_code = 0 THEN 302 ELSE status_code IN
  /\ has_header' = hh
  /\ IF ~hh THEN ErrorResponse(500, "No header read")
     ELSE IF ~has_content_type /\ sc = 0
     THEN ErrorResponse(500, "Missing required Content-Type header")
     ELSE /\ hdrPhase' = "body"
          /\ resp_status' = IF sc = 0 THEN 200 ELSE sc
          /\ line' = <<>>
          /\ UNCHANGED <<childStdout, status_code, has_location_header,
                         has_content_type, resp_headers, resp_error, resp_body>>

\* the body of the loop without StatusCode::from_u16: any number that parses
\* is recorded as the status
HeaderLineAnyCode(l) ==
  LET t == Trim(l)
      c == IndexOf(t, ":")
      k == Trim(SubSeq(t, 1, c - 1))
      v == Trim(SubSeq(t, c + 1, Len(t)))
      sp == IndexOf(v, " ")
      code_str == IF sp > 0 THEN SubSeq(v, 1, sp - 1) ELSE v
      code == IF Len(code_str) = 1 THEN ParseU16(code_str[1]) ELSE -1
  IN
  IF t = <<>>
  THEN AfterLoop(TRUE)
  ELSE /\ has_header' = TRUE
       /\ line' = <<>>
       /\ UNCHANGED <<childStdout, hdrPhase, resp_status, resp_error, resp_body>>
       /\ IF c = 0
          THEN UNCHANGED <<status_code, has_location_header, has_content_type,
                           resp_headers>>
          ELSE /\ status_code' =
                    IF k = <<"Status">> /\ code >= 0 THEN code ELSE status_code
               /\ resp_headers' =
                    IF k # <<"Status">> /\ ValidName(k) /\ ValidValue(v)
                    THEN Append(resp_headers, <<k[1], v>>) ELSE resp_headers
               /\ has_location_header' =
                    (has_location_header \/ (k = <<"Location">> /\ v # <<>>))
               /\ has_content_type' =
                    (has_content_type \/ (k = <<"Content-Type">> /\ v # <<>>))

\* the body of the loop with a response builder that is started again at a
\* line it cannot register
HeaderLineForgetsOnOddLine(l) ==
  LET t == Trim(l)
      c == IndexOf(t, ":")
      k == Trim(SubSeq(t, 1, c - 1))
      v == Trim(SubSeq(t, c + 1, Len(t)))
      sp == IndexOf(v, " ")
      code_str == IF sp > 0 THEN SubSeq(v, 1, sp - 1) ELSE v
      code == IF Len(code_str) = 1 THEN ParseU16(code_str[1]) ELSE -1
  IN
  IF t = <<>>
  THEN AfterLoop(TRUE)
  ELSE /\ has_header' = TRUE
       /\ line' = <<>>
       /\ UNCHANGED <<childStdout, hdrPhase, resp_status, resp_error, resp_body>>
       /\ IF c = 0
          THEN /\ resp_headers' = <<>>
               /\ UNCHANGED <<status_code, has_location_header, has_content_type>>
          ELSE /\ status_code' =
                    IF k = <<"Status">> /\ code >= 0 /\ ValidStatus(code)
                    THEN code ELSE status_code
               /\ resp_headers' =
                    IF k = <<"Status">> THEN resp_headers
                    ELSE IF ValidName(k) /\ ValidValue(v)
                    THEN Append(resp_headers, <<k[1], v>>) ELSE <<>>
               /\ has_location_header' =
                    (has_location_header \/ (k = <<"Location">> /\ v # <<>>))
               /\ has_content_type' =
                    (has_content_type \/ (k = <<"Content-Type">> /\ v # <<>>))

\* the spelling the loop knows for a key given in another letter case
KnownKey(k) ==
  IF k = <<"status">> THEN <<"Status">>
  ELSE IF k = <<"location">> THEN <<"Location">>
  ELSE IF k = <<"content-type">> THEN <<"Content-Type">>
  ELSE k

\* the body of the loop with keys compared without regard to letter case
HeaderLineAnyCase(l) ==
  LET t == Trim(l)
      c == IndexOf(t, ":")
      k == Trim(SubSeq(t, 1, c - 1))
      v == Trim(SubSeq(t, c + 1, Len(t)))
      sp == IndexOf(v, " ")
      code_str == IF sp > 0 THEN SubSeq(v, 1, sp - 1) ELSE v
      code == IF Len(code_str) = 1 THEN ParseU16(code_str[1]) ELSE -1
  IN
  IF t = <<>>
  THEN AfterLoop(TRUE)
  ELSE /\ has_header' = TRUE
       /\ line' = <<>>
       /\ UNCHANGED <<childStdout, hdrPhase, resp_status, resp_error, resp_body>>
       /\ IF c = 0
          THEN UNCHANGED <<status_code, has_location_header, has_content_type,
                           resp_headers>>
          ELSE /\ status_code' =
                    IF KnownKey(k) = <<"Status">> /\ code >= 0 /\ ValidStatus(code)
                    THEN code ELSE status_code
               /\ resp_headers' =
                    IF KnownKey(k) # <<"Status">> /\ ValidName(k) /\ ValidValue(v)
                    THEN Append(resp_headers, <<k[1], v>>) ELSE resp_headers
               /\ has_location_header' =
                    (has_location_header
                       \/ (KnownKey(k) = <<"Location">> /\ v # <<>>))
               /\ has_content_type' =
                    (has_content_type
                       \/ (KnownKey(k) = <<"Content-Type">> /\ v # <<>>))

\* the body of the loop for a line read with size > 0; the caller sets
\* reader_chunk and viewRest
HeaderLine(l) ==
  LET t == Trim(l)
      c == IndexOf(t, ":")
      k == Trim(SubSeq(t, 1, c - 1))
      v == Trim(SubSeq(t, c + 1, Len(t)))
      sp == IndexOf(v, " ")
      code_str == IF sp > 0 THEN SubSeq(v, 1, sp - 1) ELSE v
      code == IF Len(code_str) = 1 THEN ParseU16(code_str[1]) ELSE -1
  IN
  IF t = <<>>
  THEN AfterLoop(TRUE)
  ELSE /\ has_header' = TRUE
       /\ line' = <<>>
       /\ UNCHANGED <<childStdout, hdrPhase, resp_status, resp_error, resp_body>>
       /\ IF c = 0
          THEN \* "Bad header line"
               UNCHANGED <<status_code, has_location_header, has_content_type,
                           resp_headers>>
          ELSE /\ status_code' =
                    IF k = <<"Status">> /\ code >= 0 /\ ValidStatus(code)
                    THEN code ELSE status_code
               /\ resp_headers' =
                    IF k # <<"Status">> /\ ValidName(k) /\ ValidValue(v)
                    THEN Append(resp_headers, <<k[1], v>>) ELSE resp_headers
               /\ has_location_header' =
                    (has_location_header \/ (k = <<"Location">> /\ v # <<>>))
               /\ has_content_type' =
                    (has_content_type \/ (k = <<"Content-Type">> /\ v # <<>>))

\* read_line with an end of the output before the empty line taken as a
\* failure
ReadLineEofFails(k) ==
  /\ hdrPhase = "headers"
  /\ FillOutcome(k)
  /\ IF k = -1 \/ k = 0
     THEN /\ ErrorResponse(500, IF k = 0 THEN "Unexpected end of header"
                                 ELSE "Cannot read header")
          /\ UNCHANGED <<has_header, viewRest, reader_chunk>>
     ELSE LET a == Available(k)
              i == IndexOf(a, "\n")
          IN /\ viewRest' = ViewAfter(k)
             /\ IF i = 0
                THEN /\ line' = line \o a
                     /\ reader_chunk' = <<>>
                     /\ UNCHANGED <<childStdout, hdrPhase, has_header, status_code,
                                    has_location_header, has_content_type,
                                    resp_headers, resp_status, resp_error,
                                    resp_body>>
                ELSE /\ reader_chunk' = SubSeq(a, i + 1, Len(a))
                     /\ HeaderLine(line \o SubSeq(a, 1, i))
  /\ UNCHANGED <<limVars, psVars, transfer_encoding, spawn_ok, spawned, envVars, tbVars>>

\* read_line with a read error taken as the end of the output
ReadLineErrorAsEof(k) ==
  /\ hdrPhase = "headers"
  /\ FillOutcome(k)
  /\ IF k = -1 \/ k = 0
     THEN /\ UNCHANGED <<reader_chunk, viewRest>>
          /\ IF line = <<>> THEN AfterLoop(has_header) ELSE HeaderLine(line)
     ELSE LET a == Available(k)
              i == IndexOf(a, "\n")
          IN /\ viewRest' = ViewAfter(k)
             /\ IF i = 0
                THEN /\ line' = line \o a
                     /\ reader_chunk' = <<>>
                     /\ UNCHANGED <<childStdout, hdrPhase, has_header, status_code,
                                    has_location_header, has_content_type,
                                    resp_headers, resp_status, resp_error,
                                    resp_body>>
                ELSE /\ reader_chunk' = SubSeq(a, i + 1, Len(a))
                     /\ HeaderLine(line \o SubSeq(a, 1, i))
  /\ UNCHANGED <<limVars, psVars, transfer_encoding, spawn_ok, spawned, envVars, tbVars>>

\* One turn of read_line (read_until b'\n') over poll_fill_buf, with what
\* follows when the line is complete.
ReadLine(k) ==
  /\ hdrPhase = "headers"
  /\ FillOutcome(k)
  /\ IF k = -1
     THEN /\ ErrorResponse(500, "Cannot read header")
          /\ UNCHANGED <<has_header, viewRest, reader_chunk>>
     ELSE IF k = 0
     THEN \* end of the output: read_line returns what it has
          /\ UNCHANGED <<reader_chunk, viewRest>>
          /\ IF line = <<>> THEN AfterLoop(has_header) ELSE HeaderLine(line)
     ELSE LET a == Available(k)
              i == IndexOf(a, "\n")
          IN /\ viewRest' = ViewAfter(k)
             /\ IF i = 0
                THEN /\ line' = line \o a
                     /\ reader_chunk' = <<>>
                     /\ UNCHANGED <<childStdout, hdrPhase, has_header, status_code,
                                    has_location_header, has_content_type,
                                    resp_headers, resp_status, resp_error,
                                    resp_body>>
                ELSE /\ reader_chunk' = SubSeq(a, i + 1, Len(a))
                     /\ HeaderLine(line \o SubSeq(a, 1, i))
  /\ UNCHANGED <<limVars, psVars, transfer_encoding, spawn_ok, spawned, envVars, tbVars>>

\* a remaining stream built on the process stream, not on process_reader:
\* what the reader holds is not sent
BodyFrameSkipsBuffered(k) ==
  /\ hdrPhase = "body"
  /\ FillOutcome(k)
  /\ hdrPhase' = IF k = -1 THEN "failed" ELSE IF k = 0 THEN "ended" ELSE "body"
  /\ resp_body' = IF k >= 1 THEN resp_body \o Available(k) ELSE resp_body
  /\ reader_chunk' = <<>>
  /\ viewRest' = IF k >= 1 THEN ViewAfter(k) ELSE viewRest
  /\ UNCHANGED <<childStdout, line, has_header, status_code, has_location_header,
                 has_content_type, resp_headers, resp_status, resp_error>>
  /\ UNCHANGED <<limVars, psVars, transfer_encoding, spawn_ok, spawned, envVars, tbVars>>

\* A frame of the response body: ReaderStream::new(process_reader) reads what
\* the reader still holds, then the chunks of the stream as they come; the
\* body ends with the stream and stops at its first error.
BodyFrame(k) ==
  /\ hdrPhase = "body"
  /\ FillOutcome(k)
  /\ hdrPhase' = IF k = -1 THEN "failed" ELSE IF k = 0 THEN "ended" ELSE "body"
  /\ resp_body' = IF k >= 1 \/ k = -2 THEN resp_body \o Available(k) ELSE resp_body
  /\ reader_chunk' = <<>>
  /\ viewRest' = IF k >= 1 THEN ViewAfter(k) ELSE viewRest
  /\ UNCHANGED <<childStdout, line, has_header, status_code, has_location_header,
                 has_content_type, resp_headers, resp_status, resp_error>>
  /\ UNCHANGED <<limVars, psVars, transfer_encoding, spawn_ok, spawned, envVars, tbVars>>

NextHdr ==
  \/ Serve
  \/ \E k \in (-2)..MaxViewChunk : ReadLine(k)
  \/ \E k \in (-2)..MaxViewChunk : BodyFrame(k)

SpecHdr == InitHdr /\ [][NextHdr]_vars

\* The front part of Script::serve alone, for every request, host and script
\* of the sets above: the request is answered at once or the child is
\* spawned with the environment built.
InitEnv ==
  /\ LimitIdle
  /\ PSIdle
  /\ TBIdle
  /\ transfer_encoding \in { <<>>, <<"gzip">>, <<"chunked">> }
  /\ spawn_ok \in BOOLEAN
  /\ spawned = 0
  /\ \E t \in ReqTargets, h \in ReqHeaders :
       req = [method |-> t.method, path |-> t.path, query |-> t.query,
              headers |-> h]
  /\ script \in Scripts
  /\ host_env \in HostEnvs
  /\ env = NoEnv
  /\ child_env = NoEnv
  /\ childStdout = <<>>
  /\ viewRest = <<>>
  /\ reader_chunk = <<>>
  /\ line = <<>>
  /\ hdrPhase = "start"
  /\ has_header = FALSE
  /\ status_code = 0
  /\ has_location_header = FALSE
  /\ has_content_type = FALSE
  /\ resp_headers = <<>>
  /\ resp_status = 0
  /\ resp_error = ""
  /\ resp_body = <<>>
  /\ (transfer_encoding # <<>> \/ ~spawn_ok) =>
        (host_env = NoEnv /\ script = PlainScript)

SpecEnv == InitEnv /\ [][Serve]_vars

(***************************************************************************)
(* Claims on the response body                                             *)
(***************************************************************************)

\* what the child wrote after the first line that is empty once its line end
\* and blanks are taken off; s starts a line
RECURSIVE AfterHeader(_)
AfterHeader(s) ==
  LET i == IndexOf(s, "\n") IN
  IF i = 0 THEN <<>>
  ELSE IF \A j \in 1..i : s[j] \in WS
  THEN SubSeq(s, i + 1, Len(s))
  ELSE AfterHeader(SubSeq(s, i + 1, Len(s)))

\* the header block was accepted: the response streams the child's output
Streaming == hdrPhase \in {"body", "ended", "failed"}

\* C5 (as amended): when the header block is accepted, the response body is
\* at every moment a prefix of the bytes the child wrote after the line that
\* ended the header block, starting with the byte just after that line, and
\* it is all of them once the body has ended without a read error; what the
\* header reader had buffered beyond that line is neither lost nor repeated.
C5_BodyFollowsHeaderWhenAccepted ==
  /\ Streaming => IsPrefix(resp_body, AfterHeader(childStdout))
  /\ hdrPhase = "ended" => resp_body = AfterHeader(childStdout)

\* a body that ended after the reader had taken its first byte together with
\* the empty line
C5_Witness ==
  /\ hdrPhase = "ended"
  /\ childStdout = <<"Content-Type", ":", " ", "text", "\n", "\n", "b1", "\n">>
  /\ resp_body = <<"b1", "\n">>
  /\ resp_status = 200

\* C5 (as stated): every byte the child wrote after the empty line is in the
\* body of the response, once the response is over without a read error.
C5_EveryByteAfterHeaderInBody ==
  (hdrPhase = "ended" \/ (hdrPhase = "error" /\ resp_error # "Cannot read header"))
    => resp_body = AfterHeader(childStdout)

(***************************************************************************)
(* Claims on the rejections and on the status of the response              *)
(***************************************************************************)

\* the request has a Transfer-Encoding header line with the value chunked
CarriesChunked(values) == \E i \in 1..Len(values) : values[i] = "chunked"

\* C17: for a request that carries Transfer-Encoding: chunked no child is
\* spawned, and the answer is 400 "Chunked encoding is not supported by CGI."
\* (for an executable that could have been spawned).
C17_ChunkedRejected ==
  [][(hdrPhase = "start" /\ CarriesChunked(transfer_encoding)) =>
       /\ spawned' = 0
       /\ hdrPhase' = "error"
       /\ spawn_ok =>
            /\ resp_status' = 400
            /\ resp_error' = "Chunked encoding is not supported by CGI."]_vars

\* the handler has answered for a spawned child, not with a read error
Decided ==
  /\ spawned = 1
  /\ hdrPhase \in {"body", "ended", "failed", "error"}
  /\ resp_error # "Cannot read header"

\* the first line of the child's output (all of it if it has no line feed)
FirstLine(s) ==
  LET i == IndexOf(s, "\n") IN IF i = 0 THEN s ELSE SubSeq(s, 1, i)

\* the header block ended, by a blank line or the end of the output, before
\* any header line
NoHeaderLine(s) == \A j \in 1..Len(FirstLine(s)) : FirstLine(s)[j] \in WS

\* C19: if no header line was seen before the header block ended (blank line
\* or end-of-file), the response is 500 "No header read".
C19_NoHeaderRead ==
  (Decided /\ NoHeaderLine(childStdout))
    => (hdrPhase = "error" /\ resp_status = 500 /\ resp_error = "No header read")

\* the trimmed lines of the header block: those before the first blank line or
\* the end of the output
RECURSIVE HeaderLinesOf(_)
HeaderLinesOf(s) ==
  IF s = <<>> THEN <<>>
  ELSE LET i == IndexOf(s, "\n")
           t == Trim(IF i = 0 THEN s ELSE SubSeq(s, 1, i))
       IN IF t = <<>> THEN <<>>
          ELSE <<t>> \o (IF i = 0 THEN <<>>
                         ELSE HeaderLinesOf(SubSeq(s, i + 1, Len(s))))

KeyOf(t) ==
  IF IndexOf(t, ":") = 0 THEN <<>> ELSE Trim(SubSeq(t, 1, IndexOf(t, ":") - 1))

ValueOf(t) ==
  IF IndexOf(t, ":") = 0 THEN <<>> ELSE Trim(SubSeq(t, IndexOf(t, ":") + 1, Len(t)))

\* a non-empty Location header is in the block
LocationSeen(ls) ==
  \E i \in 1..Len(ls) : KeyOf(ls[i]) = <<"Location">> /\ ValueOf(ls[i]) # <<>>

\* the code of a Status line, 0 unless its value up to the first space is a
\* valid status code
CodeOf(t) ==
  LET v == ValueOf(t)
      sp == IndexOf(v, " ")
      w == IF sp > 0 THEN SubSeq(v, 1, sp - 1) ELSE v
  IN IF KeyOf(t) = <<"Status">> /\ Len(w) = 1 /\ ParseU16(w[1]) >= 0
          /\ ValidStatus(ParseU16(w[1]))
     THEN ParseU16(w[1]) ELSE 0

\* the code of the last valid Status line of the block, 0 if none
RECURSIVE GivenStatus(_)
GivenStatus(ls) ==
  IF ls = <<>> THEN 0
  ELSE IF CodeOf(ls[Len(ls)]) # 0 THEN CodeOf(ls[Len(ls)])
  ELSE GivenStatus(SubSeq(ls, 1, Len(ls) - 1))

\* C20: with a non-empty Location header in the block and no Status the
\* response is a 302, also without a Content-Type; with a Status and a
\* Location the response has the status given.
C20_LocationGives302 ==
  (Decided /\ LocationSeen(HeaderLinesOf(childStdout))) =>
     /\ hdrPhase # "error"
     /\ resp_status = IF GivenStatus(HeaderLinesOf(childStdout)) = 0 THEN 302
                      ELSE GivenStatus(HeaderLinesOf(childStdout))

\* "Location: /next", an empty line, nothing else: 302 with that header and an
\* empty body
C20_Witness ==
  /\ childStdout = <<"Location", ":", "/next", "\r", "\n", "\r", "\n">>
  /\ hdrPhase = "ended"
  /\ resp_status = 302
  /\ resp_headers = << <<"Location", <<"/next">> >> >>
  /\ resp_body = <<>>

\* a Content-Type header with a non-empty value is in the block
ContentTypeSeen(ls) ==
  \E i \in 1..Len(ls) : KeyOf(ls[i]) = <<"Content-Type">> /\ ValueOf(ls[i]) # <<>>

\* the header block has neither a non-empty Content-Type, nor a Status that
\* was recorded, nor a Location that makes the status 302
NothingToAnswerWith(ls) ==
  ~ContentTypeSeen(ls) /\ GivenStatus(ls) = 0 /\ ~LocationSeen(ls)

\* C21: a header block with neither a non-empty Content-Type nor a Status (and
\* no Location that turns the status into 302) gives a 500 whose body says
\* that the required Content-Type header is missing (a child that wrote
\* nothing at all falls under the earlier rule, "No header read"), and no
\* byte of the child's output is sent as the body.
C21_MissingContentType ==
  (Decided /\ NothingToAnswerWith(HeaderLinesOf(childStdout))) =>
     /\ hdrPhase = "error"
     /\ resp_status = 500
     /\ resp_error = IF childStdout = <<>> THEN "No header read"
                     ELSE "Missing required Content-Type header"
     /\ resp_body = <<>>

\* "X-Foo: bar", an empty line and a body: 500, nothing of the body sent
C21_Witness ==
  /\ childStdout = <<"X-Foo", ":", "bar", "\r", "\n", "\r", "\n", "b1", "\n">>
  /\ hdrPhase = "error"
  /\ resp_status = 500
  /\ resp_error = "Missing required Content-Type header"
  /\ resp_headers = << <<"X-Foo", <<"bar">> >> >>
  /\ resp_body = <<>>

\* the status the rules give for a header block: the Status recorded, else
\* 302 for a Location, else 200 for a Content-Type, else the 500 of the
\* missing Content-Type
ExpectedStatus(ls) ==
  IF GivenStatus(ls) # 0 THEN GivenStatus(ls)
  ELSE IF LocationSeen(ls) THEN 302
  ELSE IF ContentTypeSeen(ls) THEN 200
  ELSE 500

\* the block has a Status line that gives no valid code
OddStatusSeen(ls) ==
  \E i \in 1..Len(ls) : KeyOf(ls[i]) = <<"Status">> /\ CodeOf(ls[i]) = 0

WellFormed(t) ==
  /\ IndexOf(t, ":") > 0
  /\ KeyOf(t) # <<"Status">>
  /\ Len(KeyOf(t)) = 1
  /\ KeyOf(t)[1] \notin (WS \cup {":"})
  /\ \A j \in 1..Len(ValueOf(t)) : ValueOf(t)[j] \notin {"\r", "\n"}

\* the headers of the well-formed lines of a block, in the order of the block
RECURSIVE HeadersOf(_)
HeadersOf(ls) ==
  IF ls = <<>> THEN <<>>
  ELSE (IF WellFormed(ls[1]) THEN << <<KeyOf(ls[1])[1], ValueOf(ls[1])>> >>
        ELSE <<>>) \o HeadersOf(Tail(ls))

\* the block has a line without a colon, or with a key or a value that is not
\* a header name or value
OddLineSeen(ls) ==
  \E i \in 1..Len(ls) : ~WellFormed(ls[i]) /\ KeyOf(ls[i]) # <<"Status">>

C23_WitnessBadValue ==
  /\ childStdout = <<"Location", ":", "/next", "\r", "\n",
                     "X-Bar", ":", " ", "a", "\r", "b", "\r", "\n",
                     "X-Foo", ":", "bar", "\r", "\n", "\r", "\n">>
  /\ hdrPhase = "ended"
  /\ resp_headers = << <<"Location", <<"/next">> >>, <<"X-Foo", <<"bar">> >> >>

\* the output has a line with nothing but blanks before its line feed
HasBlankLine(s) ==
  \E i \in 1..Len(s) :
    /\ s[i] = "\n"
    /\ \E a \in 1..i : /\ (a = 1 \/ s[a - 1] = "\n")
                       /\ \A j \in a..i : s[j] \in WS

\* C24: when the child's output ends before an empty line, all its lines are
\* taken as the header block and the response is decided by the rules of a
\* complete block: the same status, the same failure for a block with nothing
\* to answer with, the same headers, and a body that ends without a byte.
C24_EofEndsHeaderBlock ==
  (Decided /\ childStdout # <<>> /\ ~HasBlankLine(childStdout)) =>
    /\ resp_status = ExpectedStatus(HeaderLinesOf(childStdout))
    /\ resp_error = IF NothingToAnswerWith(HeaderLinesOf(childStdout))
                    THEN "Missing required Content-Type header" ELSE ""
    /\ resp_headers = HeadersOf(HeaderLinesOf(childStdout))
    /\ resp_body = <<>>
    /\ hdrPhase \in {"body", "ended"} => viewRest = <<>> /\ reader_chunk = <<>>

\* a lone Content-Type line, then the end of the output: 200 with that
\* header and an empty body
C24_Witness ==
  /\ childStdout = <<"Content-Type", ":", " ", "text", "\r", "\n">>
  /\ ~HasBlankLine(childStdout)
  /\ hdrPhase = "ended"
  /\ resp_status = 200
  /\ resp_headers = << <<"Content-Type", <<"text">> >> >>
  /\ resp_body = <<>>

(***************************************************************************)
(* Claims on the errors of the process stream                              *)
(***************************************************************************)

\* C25: an error item of the process stream met while the header block is
\* read gives a 500 at once, whatever was read before; once the response is
\* returned with its status and headers, no step changes either of them: the
\* body only grows, and an error item ends it where it is.
C25_ErrorBeforeAndAfterHeaders ==
  [][/\ ReadLine(-1) =>
          /\ hdrPhase' = "error"
          /\ resp_status' = 500
          /\ resp_error' = "Cannot read header"
          /\ resp_body' = <<>>
     /\ Streaming =>
          /\ resp_status' = resp_status
          /\ resp_headers' = resp_headers
          /\ IsPrefix(resp_body, resp_body')
          /\ hdrPhase' \in {"body", "ended", "failed"}
     /\ BodyFrame(-1) => (hdrPhase' = "failed" /\ resp_body' = resp_body)
     /\ hdrPhase \in {"failed", "ended", "error"} => UNCHANGED hdrVars]_vars

\* a read error after a Status line was read: 500, not the status given
C25_Witness ==
  /\ hdrPhase = "error"
  /\ resp_error = "Cannot read header"
  /\ resp_status = 500
  /\ status_code = 404
  /\ has_header

\* a read error after the response was returned: the body stops short, status
\* and headers are those decided
C25_WitnessBodyCut ==
  /\ hdrPhase = "failed"
  /\ resp_status = 404
  /\ resp_headers = << <<"X-Foo", <<"bar">> >> >>
  /\ resp_body = <<"b1">>
  /\ AfterHeader(childStdout) = <<"b1", "\n">>

(***************************************************************************)
(* Claims on the environment of the child                                  *)
(***************************************************************************)

\* the map of the request was built: serve went past the test for chunked
EnvBuilt == hdrPhase # "start" /\ resp_status # 400

\* the keys of the explicit list, and the value of the last entry of a key
ExplicitKeys == { script.env[i][1] : i \in 1..Len(script.env) }

LastExplicit(k) ==
  LET last == CHOOSE i \in 1..Len(script.env) :
                /\ script.env[i][1] = k
                /\ \A j \in (i + 1)..Len(script.env) : script.env[j][1] # k
  IN script.env[last][2]

\* the loader variables and the inherited names the host gives a value to
LoaderKeys ==
  { OS_SPECIFIC_VARS[i] : i \in { j \in 1..Len(OS_SPECIFIC_VARS) :
                                   HostHas(OS_SPECIFIC_VARS[j]) } }

InheritedKeys ==
  { script.inherited_env[i] : i \in { j \in 1..Len(script.inherited_env) :
                                       HostHas(script.inherited_env[j]) } }

\* what the request, the script and the peer give
RequestDerived == ContentStage(HeaderStage(RequestStage(NoEnv)))

\* the keys of e are those some stage wrote, and the value of a key is the
\* one of the latest stage that wrote it
LatestStageWins(e) ==
    /\ DOMAIN e = (DOMAIN RequestDerived) \cup {"PATH"} \cup InheritedKeys
                      \cup LoaderKeys \cup ExplicitKeys
    /\ \A k \in DOMAIN e :
         e[k] = IF k \in ExplicitKeys THEN LastExplicit(k)
                  ELSE IF k \in LoaderKeys \cup InheritedKeys THEN host_env[k]
                  ELSE IF k = "PATH"
                  THEN (IF HostHas("PATH") THEN host_env["PATH"]
                        ELSE "/bin:/usr/bin:/usr/ucb:/usr/bsd:/usr/local/bin")
                  ELSE RequestDerived[k]
    /\ LET host == GetAll(HeaderMap, "host")
       IN (Len(host) = 2 /\ "HTTP_HOST" \notin ExplicitKeys \cup InheritedKeys) =>
             e["HTTP_HOST"] = Str(host[1]) \o "," \o Str(host[2])

\* C28: the environment serve builds for a request has one value for each
\* key, the keys are those some stage wrote, and the value of a key is the
\* one of the latest stage that wrote it: the explicit list of the script
\* (its last entry for the key) over the loader variables, over the
\* inherited names, over PATH, over what the request gives; among the
\* request's, the export of the Host headers over the HTTP_HOST of the Host
\* stage.
C28_LatestStageWins ==
  [][(hdrPhase = "start" /\ EnvBuilt') => LatestStageWins(env')]_vars

\* the explicit list has two entries for REQUEST_METHOD, the name is
\* inherited and set on the host, and the request has a method
C28_Witness ==
  /\ EnvBuilt
  /\ spawned = 1
  /\ Len(script.env) = 2
  /\ script.env[1][1] = "REQUEST_METHOD" /\ script.env[2][1] = "REQUEST_METHOD"
  /\ "REQUEST_METHOD" \in InheritedKeys
  /\ req.method = "POST"
  /\ env["REQUEST_METHOD"] = "two"
  /\ Len(GetAll(HeaderMap, "host")) = 2

\* the explicit list over PATH, a loader variable and an exported header
C28_WitnessOverPath ==
  /\ EnvBuilt
  /\ HostHas("PATH") /\ HostHas("LD_LIBRARY_PATH")
  /\ "x-foo" \in Keys(HeaderMap)
  /\ env["PATH"] = "/own" /\ env["LD_LIBRARY_PATH"] = "/ownlib"
  /\ env["HTTP_X-FOO"] = "own"

\* C29: the child is spawned with the built map as its whole environment: a
\* variable of the host that is not a key of the map is not in the
\* environment of the child.
C29_ChildEnvIsBuiltEnv ==
  spawned = 1 =>
    /\ child_env = env
    /\ \A k \in DOMAIN host_env : k \notin DOMAIN env => k \notin DOMAIN child_env

\* the child sees SECRET of the host, which no stage wrote
C29_HostVariableLeaks ==
  /\ spawned = 1
  /\ "SECRET" \in DOMAIN host_env
  /\ "SECRET" \notin DOMAIN env
  /\ "SECRET" \in DOMAIN child_env
  /\ child_env["SECRET"] = host_env["SECRET"]

\* the header names of the request that are not Proxy and whose first value
\* to_str accepts
Exported ==
  { n \in Keys(HeaderMap) : n # "proxy" /\ ToStrOk(GetAll(HeaderMap, n)[1]) }

\* C30: whatever the case of its name, a Proxy header of the request puts
\* no HTTP_PROXY in the built map: the key is there only if the script's
\* explicit list or an inherited name of the host has it; and the other
\* headers of the request, those whose first value is ASCII, have their
\* HTTP_ key in the map, with their values joined unless a later stage wrote
\* the key.
C30_ProxyHeaderDropped ==
  [][(hdrPhase = "start" /\ EnvBuilt') =>
    /\ "HTTP_PROXY" \in DOMAIN env' =>
          "HTTP_PROXY" \in ExplicitKeys \cup InheritedKeys
    /\ "HTTP_PROXY" \notin DOMAIN RequestDerived
    /\ (spawned' = 1 /\ "HTTP_PROXY" \in DOMAIN child_env') =>
          "HTTP_PROXY" \in ExplicitKeys \cup InheritedKeys \cup DOMAIN host_env
    /\ \A n \in Exported :
         LET k == "HTTP_" \o Upper(n)
             vs == GetAll(HeaderMap, n)
         IN /\ k \in DOMAIN env'
            /\ k \notin ExplicitKeys \cup InheritedKeys =>
                 env'[k] = Str(vs[1]) \o JoinRest(Tail(vs), IF n = "cookie" THEN ";"
                                                            ELSE ",")]_vars

\* a request with a Proxy header in mixed case and a Cookie header: the
\* cookie is exported, HTTP_PROXY is not there
C30_Witness ==
  /\ EnvBuilt
  /\ spawned = 1
  /\ \E i \in 1..Len(req.headers) : req.headers[i][1] = "pRoXy"
  /\ "cookie" \in Exported
  /\ "HTTP_COOKIE" \in DOMAIN child_env
  /\ "HTTP_PROXY" \notin DOMAIN child_env

\* the host has HTTP_PROXY, the request a Proxy header: the map has no
\* HTTP_PROXY, the child has the one of the host
C30_WitnessHostProxy ==
  /\ spawned = 1
  /\ \E i \in 1..Len(req.headers) : Lower(req.headers[i][1]) = "proxy"
  /\ "HTTP_PROXY" \notin DOMAIN env
  /\ "HTTP_PROXY" \in DOMAIN child_env

\* the values of vs that to_str accepts, in order, with sep between them
RECURSIVE JoinAll(_, _)
JoinAll(vs, sep) ==
  IF vs = <<>> THEN ""
  ELSE IF ~ToStrOk(vs[1]) THEN JoinAll(Tail(vs), sep)
  ELSE LET rest == JoinAll(Tail(vs), sep)
       IN Str(vs[1]) \o (IF \E i \in 2..Len(vs) : ToStrOk(vs[i]) THEN sep \o rest
                         ELSE "")

\* C31: for every header name of the request other than Proxy with a value
\* that is ASCII, HTTP_<NAME> in the built map is the join, in order, of all
\* the ASCII values of the header (';' for Cookie, ',' otherwise), whatever
\* the place of the values that are not ASCII, the first included (unless a
\* later stage wrote the key).
C31_AsciiValuesJoined ==
  [][(hdrPhase = "start" /\ EnvBuilt') =>
       \A n \in Keys(HeaderMap) \ {"proxy"} :
         LET k == "HTTP_" \o Upper(n)
             vs == GetAll(HeaderMap, n)
         IN ((\E i \in 1..Len(vs) : ToStrOk(vs[i]))
               /\ k \notin ExplicitKeys \cup InheritedKeys) =>
              /\ k \in DOMAIN env'
              /\ env'[k] = JoinAll(vs, IF n = "cookie" THEN ";" ELSE ",")]_vars

\* a header whose first value is not ASCII and whose second is: the map has
\* no key for it
C31_FirstValueOpaque ==
  /\ EnvBuilt
  /\ Len(req.headers) = 2
  /\ req.headers[1] = <<"x-foo", <<OpaqueToken>> >>
  /\ req.headers[2] = <<"X-Foo", <<"x">> >>
  /\ "HTTP_X-FOO" \notin DOMAIN env

\* C32: a Content-Length that parses as a non-negative integer, of whatever
\* size, puts CONTENT_LENGTH in the built map, in canonical decimal form; one
\* that does not parse puts none (unless a later stage wrote the key).
C32_ContentLengthAnySize ==
  [][(hdrPhase = "start" /\ EnvBuilt'
        /\ "CONTENT_LENGTH" \notin ExplicitKeys \cup InheritedKeys) =>
       LET cl == GetAll(HeaderMap, "content-length")
       IN IF cl # <<>> /\ Len(cl[1]) = 1 /\ cl[1][1] \in {"7", "4294967296"}
          THEN /\ "CONTENT_LENGTH" \in DOMAIN env'
               /\ env'["CONTENT_LENGTH"] = cl[1][1]
          ELSE "CONTENT_LENGTH" \notin DOMAIN env']_vars

\* a request with Content-Length: 4294967296 and no CONTENT_LENGTH
C32_LargeLengthUnset ==
  /\ EnvBuilt
  /\ Len(req.headers) = 1
  /\ req.headers[1] = <<"Content-Length", <<"4294967296">> >>
  /\ "CONTENT_LENGTH" \notin DOMAIN env

\* the source has reported an error to the stream
SourceErrored == input_closed /\ \E i \in 1..Len(Pulled) : Pulled[i].err

\* C33: a write error on stdin closes stdin and gives an error item, an
\* error of the source marks the source exhausted and gives an error item,
\* no later step gives an error again, and after the error the stream still
\* drains the outputs of the child and ends once both are at end-of-file.
C33_ErrorThenDrainToEnd ==
  /\ [][\A srcReady \in BOOLEAN :
          (PollNext(srcReady, -1) /\ "stdin" \in Range(polled')) =>
             (~stdin' /\ psResult' = "Err")]_vars
  /\ [][(PollStep /\ ~input_closed /\ input # <<>> /\ Head(input).err
           /\ input' # input) => (input_closed' /\ psResult' = "Err")]_vars
  /\ [][(PollStep /\ (SourceErrored \/ StdinRefused)) => psResult' # "Err"]_vars
  /\ (psResult = "Err" /\ childKind = "echo") ~> (psResult = "Done")

\* the pipe has failed a write: stdin is closed and the step gave the error
C33_WriteErrorSeen ==
  /\ driven = "ProcessStream"
  /\ psResult = "Err"
  /\ ~stdin /\ ~input_closed
  /\ polled = <<"input", "stdin">>

\* C34: no step of the stream panics: whatever stdout and stderr have (data,
\* nothing yet, end-of-file, an error), a step returns an item, an error,
\* pending or the end of the stream.
C34_NoStepPanics ==
  psResult \in {"none", "Item", "Err", "Pending", "Done"}

\* stderr is at end-of-file while stdout is open with nothing to read yet:
\* the step panicked
C34_PanicStderrEofFirst ==
  /\ driven = "PSStatus"
  /\ psResult = "Panic"
  /\ stdout /\ ~stderr

\* C40: after the source of the request body has reported an error, stdin
\* of the child is eventually closed, and for a child that reads its stdin
\* to the end the stream reaches its end.
C40_StdinClosedAfterSourceError ==
  /\ SourceErrored ~> ~stdin
  /\ (SourceErrored /\ childKind = "cat") ~> (psResult = "Done")

\* the source gave a chunk and then an error: the error was reported and
\* stdin is still open
C40_StdinOpenAfterError ==
  /\ driven = "ProcessStream"
  /\ SourceErrored
  /\ stdin
  /\ stdinRecv # <<>>
  /\ psResult = "Pending"

(***************************************************************************)
(* TimeoutBody (src/src/timeout.rs), the wrapper RequestBodyTimeout::call  *)
(* puts around the body of a request.  Time is a clock of ticks; the Sleep *)
(* is the deadline it was created with.                                    *)
(***************************************************************************)

\* what an inner body yields: data frames and errors, then its end
TbItems == {"f1", "f2", "err"}

TbBodies == UNION {[1..n -> TbItems] : n \in 0..MaxTbFrames}

\* RequestBodyTimeout::call, TimeoutBody::new: no Sleep yet
InitTB ==
  /\ LimitIdle
  /\ PSIdle
  /\ transfer_encoding = <<>> /\ spawn_ok = TRUE /\ spawned = 0
  /\ req = <<>> /\ script = <<>> /\ host_env = <<>> /\ env = <<>> /\ child_env = <<>>
  /\ childStdout = <<>> /\ viewRest = <<>> /\ reader_chunk = <<>> /\ line = <<>>
  /\ hdrPhase = "idle"
  /\ has_header = FALSE /\ status_code = 0
  /\ has_location_header = FALSE /\ has_content_type = FALSE
  /\ resp_headers = <<>> /\ resp_status = 0 /\ resp_error = "" /\ resp_body = <<>>
  /\ tb_timeout \in 0..MaxTimeout
  /\ tb_sleep = -1
  /\ tb_now = 0
  /\ tb_all \in TbBodies
  /\ tb_body = tb_all
  /\ tb_out = <<>>
  /\ tb_last = "none"

\* time passes
Tick ==
  /\ tb_last # "idle"
  /\ tb_now < MaxTime
  /\ tb_now' = tb_now + 1
  /\ UNCHANGED <<tb_timeout, tb_sleep, tb_all, tb_body, tb_out, tb_last>>
  /\ UNCHANGED <<limVars, psVars, transfer_encoding, spawn_ok, spawned, envVars,
                 childStdout, viewRest, reader_chunk, line, hdrPhase, has_header,
                 status_code, has_location_header, has_content_type,
                 resp_headers, resp_status, resp_error, resp_body>>

\* the deadline of the Sleep polled: the one held, or one made now
Deadline == IF tb_sleep = -1 THEN tb_now + tb_timeout ELSE tb_sleep

\* what the inner body answers when it is ready: its next item or its end
InnerAnswer == IF tb_body = <<>> THEN "end" ELSE Head(tb_body)

\* a poll_frame that keeps the Sleep when a frame is ready
PollFrameTBKeepsSleep(ready) ==
  /\ tb_last # "idle"
  /\ tb_sleep' = Deadline
  /\ IF tb_now >= Deadline
     THEN /\ ready
          /\ tb_last' = "timeout"
          /\ tb_out' = Append(tb_out, "timeout")
          /\ UNCHANGED tb_body
     ELSE IF ~ready
     THEN /\ tb_last' = "pending"
          /\ UNCHANGED <<tb_body, tb_out>>
     ELSE /\ tb_last' = InnerAnswer
          /\ tb_out' = Append(tb_out, InnerAnswer)
          /\ tb_body' = IF tb_body = <<>> THEN <<>> ELSE Tail(tb_body)
  /\ UNCHANGED <<tb_timeout, tb_now, tb_all>>
  /\ UNCHANGED <<limVars, psVars, transfer_encoding, spawn_ok, spawned, envVars,
                 childStdout, viewRest, reader_chunk, line, hdrPhase, has_header,
                 status_code, has_location_header, has_content_type,
                 resp_headers, resp_status, resp_error, resp_body>>

\* TimeoutBody::poll_frame.  ready: the inner body has its next item (or its
\* end) ready; fixed to TRUE on the path that does not poll it.
PollFrameTB(ready) ==
  /\ tb_last # "idle"
  /\ IF tb_now >= Deadline
     THEN \* the Sleep is Ready: the error, and the Sleep stays
          /\ ready
          /\ tb_sleep' = Deadline
          /\ tb_last' = "timeout"
          /\ tb_out' = Append(tb_out, "timeout")
          /\ UNCHANGED tb_body
     ELSE IF ~ready
     THEN \* ready! returns Pending, the Sleep stays
          /\ tb_sleep' = Deadline
          /\ tb_last' = "pending"
          /\ UNCHANGED <<tb_body, tb_out>>
     ELSE \* a frame, an error of the inner body, or its end: the Sleep is reset
          /\ tb_sleep' = -1
          /\ tb_last' = InnerAnswer
          /\ tb_out' = Append(tb_out, InnerAnswer)
          /\ tb_body' = IF tb_body = <<>> THEN <<>> ELSE Tail(tb_body)
  /\ UNCHANGED <<tb_timeout, tb_now, tb_all>>
  /\ UNCHANGED <<limVars, psVars, transfer_encoding, spawn_ok, spawned, envVars,
                 childStdout, viewRest, reader_chunk, line, hdrPhase, has_header,
                 status_code, has_location_header, has_content_type,
                 resp_headers, resp_status, resp_error, resp_body>>

\* the body is polled until it has returned its end or an error
NextTB ==
  \/ Tick
  \/ \E ready \in BOOLEAN :
       /\ tb_last \notin {"end", "err", "timeout"}
       /\ PollFrameTB(ready)

SpecTB == InitTB /\ [][NextTB]_vars

(***************************************************************************)
(* Claims on TimeoutBody                                                   *)
(***************************************************************************)

\* a step of poll_frame
TBPollStep == \E ready \in BOOLEAN : PollFrameTB(ready)

\* what the inner body has yielded so far
TbYielded == SubSeq(tb_all, 1, Len(tb_all) - Len(tb_body))

\* C35: TimeoutBody passes the frames of the inner body through, unchanged
\* and in order, with a timer for each frame.  The Sleep is made only by a
\* poll_frame, the first after construction or after a delivered frame, with
\* the timeout from that poll on; a frame, an error or the end of the inner
\* body is returned as it is and resets the Sleep; a pending inner body
\* leaves the Sleep running; and a poll returns the timeout error exactly
\* when the Sleep it polls has expired, without asking the inner body.
C35_TimeoutBodyTransparent ==
  /\ [](tb_last # "idle" =>
          /\ tb_body = SubSeq(tb_all, Len(TbYielded) + 1, Len(tb_all))
          /\ SelectSeq(tb_out, LAMBDA x : x \notin {"timeout", "end"}) = TbYielded
          /\ (tb_sleep = -1) <=> (tb_last \in {"none", "f1", "f2", "err", "end"}))
  /\ [][(tb_sleep = -1 /\ tb_sleep' # -1) =>
          (TBPollStep /\ tb_sleep' = tb_now + tb_timeout)]_vars
  /\ [][(tb_sleep # -1 /\ tb_sleep' # -1) => tb_sleep' = tb_sleep]_vars
  /\ [][TBPollStep =>
          /\ (tb_last' = "timeout") <=> (tb_now >= Deadline)
          /\ tb_last' = "timeout" => tb_body' = tb_body
          /\ tb_last' = "pending" => (tb_body' = tb_body /\ tb_out' = tb_out)
          /\ tb_last' \in TbItems \cup {"end"} =>
               (tb_last' = InnerAnswer /\ tb_sleep' = -1)]_vars

\* two frames went through, each within its timer, the second after the
\* inner body was pending once, and the end followed
C35_Witness ==
  /\ tb_timeout = 2
  /\ tb_all = <<"f1", "f2">>
  /\ tb_out = <<"f1", "f2", "end">>
  /\ tb_now = 3
  /\ tb_sleep = -1

\* the timer ran out while the inner body was pending, after a frame
C35_WitnessTimeout ==
  /\ tb_timeout = 1
  /\ tb_all = <<"f1", "f2">>
  /\ tb_out = <<"f1", "timeout">>
  /\ tb_body = <<"f2">>

(***************************************************************************)
(* Claims on the letter case of the keys and on the flags of the loop      *)
(***************************************************************************)

\* the keys the loop knows, written in lower case
OtherCase == { <<"status">>, <<"location">>, <<"content-type">> }

\* the block has one of the three keys in lower case
OtherCaseSeen(ls) == \E i \in 1..Len(ls) : KeyOf(ls[i]) \in OtherCase

\* C38: Status, Location and Content-Type are recognized in that exact letter
\* case only.  A line "content-type: text" does not satisfy the Content-Type
\* requirement, a line "status: 404" does not set the status and a line
\* "location: /next" does not make the status 302: the answer is the one the
\* lines in the exact case give, a 500 for the missing Content-Type if they
\* give none, and each such line is sent as an ordinary header, its key as the
\* child wrote it.
C38_ExactCaseOnly ==
  LET ls == HeaderLinesOf(childStdout) IN
  (Decided /\ OtherCaseSeen(ls)) =>
    /\ resp_status = ExpectedStatus(ls)
    /\ NothingToAnswerWith(ls) =>
         /\ hdrPhase = "error"
         /\ resp_error = "Missing required Content-Type header"
    /\ ~NothingToAnswerWith(ls) => Streaming
    /\ \A i \in 1..Len(ls) :
         (KeyOf(ls[i]) \in OtherCase /\ WellFormed(ls[i])) =>
            \E j \in 1..Len(resp_headers) :
               resp_headers[j] = <<KeyOf(ls[i])[1], ValueOf(ls[i])>>

\* "Content-Type: text", "status: 404", the empty line: a 200 that carries
\* both lines as headers
C38_Witness ==
  /\ childStdout = <<"Content-Type", ":", " ", "text", "\n",
                     "status", ":", " ", "404", "\n", "\n">>
  /\ hdrPhase = "ended"
  /\ status_code = 0
  /\ resp_status = 200
  /\ resp_headers = << <<"Content-Type", <<"text">> >>, <<"status", <<"404">> >> >>

\* "content-type: text", the empty line: 500, the Content-Type is missing
C38_WitnessMissing ==
  /\ childStdout = <<"content-type", ":", " ", "text", "\n", "\n">>
  /\ hdrPhase = "error"
  /\ ~has_content_type
  /\ resp_status = 500
  /\ resp_error = "Missing required Content-Type header"

\* the response has the header of the given name with a value that a line of
\* the block gives for it
Carries(name, ls) ==
  \E i \in 1..Len(ls), j \in 1..Len(resp_headers) :
     /\ KeyOf(ls[i]) = <<name>>
     /\ ValueOf(ls[i]) # <<>>
     /\ resp_headers[j] = <<name, ValueOf(ls[i])>>

\* C39: whenever the status is 302 because a Location line was seen without a
\* Status, the response has a Location header with the value the child gave,
\* and whenever the Content-Type requirement is taken as satisfied, the
\* response has the Content-Type header that satisfied it: a line that was
\* skipped as invalid sets neither flag.
C39_FlagsHaveTheirHeader ==
  LET ls == HeaderLinesOf(childStdout) IN
  (Decided /\ Streaming) =>
    /\ (resp_status = 302 /\ GivenStatus(ls) = 0 /\ has_location_header)
          => Carries("Location", ls)
    /\ has_content_type => Carries("Content-Type", ls)

\* "Location: a\rb", the empty line: the value is not a header value, the
\* line is skipped and still the answer is a 302, without a Location header
C39_RedirectWithoutLocation ==
  /\ childStdout = <<"Location", ":", " ", "a", "\r", "b", "\n", "\n">>
  /\ hdrPhase = "ended"
  /\ has_location_header
  /\ resp_status = 302
  /\ resp_headers = <<>>

\* "Content-Type: a\rb", the empty line: a 200 without a Content-Type header
C39_AcceptedWithoutContentType ==
  /\ childStdout = <<"Content-Type", ":", " ", "a", "\r", "b", "\n", "\n">>
  /\ hdrPhase = "ended"
  /\ has_content_type
  /\ resp_status = 200
  /\ resp_headers = <<>>

====
